---- MODULE Spec2Model ----
(***************************************************************************)
(* Model of the indexing core of code-analyzer: the repository indexer     *)
(* (code_parser/indexer.py), the dependency graph builder                  *)
(* (code_parser/dependency_graph.py) and the size chunker                  *)
(* (code_parser/parser.py).                                                *)
(*                                                                         *)
(* A path, a keyword and a source text are sequences of character codes    *)
(* (66 is "B", 97 is "a", 98 is "b", 10 is the line feed).  A Python dict  *)
(* is a sequence of entries in insertion order, or a function where only   *)
(* lookups matter; a Python list is a sequence.                            *)
(***************************************************************************)
EXTENDS Integers, Sequences, FiniteSets, TLC

(***************************************************************************)
(* Bounds of the model.                                                    *)
(***************************************************************************)
MaxFiles == 2

MaxRefs == 1

MaxDefs == 2

MaxFileDefs == 1

MaxDepth == 2

MaxTopN == 2

MaxThreshold == 1

MaxSrcLen == 5

MaxChunkLines == 3

MaxTreeLines == 3

MaxNodes == 4

MaxDeclChunkLines == 2

\* call sites and type identifiers of a file whose references are extracted
MaxSites == 2

\* methods of a class whose definitions are extracted
MaxMethods == 2

\* the limits of the repository summary
MaxShown == 2

\* the largest max_retries and retry_backoff_base of an LLM client
MaxRetries == 3

MaxBackoffBase == 2

\* the largest number of references in the repository of four files
MaxDeepRefs == 4

(***************************************************************************)
(* Input universes.                                                        *)
(***************************************************************************)
\* the relative paths "B", "a" and "ab"
Paths == {<<66>>, <<97>>, <<97, 98>>}

\* symbol names: "f", "g" and <<>>, which stands for every falsy name (None
\* or the empty string)
Names == {<<>>, <<102>>, <<103>>}

\* configured entry_point_keywords lists: [], ["b"], ["B"]
KeywordLists == {<<>>, << <<98>> >>, << <<66>> >>}

\* the characters of a source text: a letter and the line feed
SrcChars == {97, 10}

Range(s) == {s[i] : i \in 1..Len(s)}

SeqsUpTo(S, n) == UNION {[1..k -> S] : k \in 0..n}

NoDup(s) == \A i, j \in 1..Len(s) : s[i] = s[j] => i = j

\* dict.get(key, []) on a dict modelled as a function
Get(d, k) == IF k \in DOMAIN d THEN d[k] ELSE <<>>

\* Python's str < str: lexicographic on code points
RECURSIVE StrLess(_, _)
StrLess(s, t) ==
    IF t = <<>> THEN FALSE
    ELSE IF s = <<>> THEN TRUE
    ELSE IF s[1] # t[1] THEN s[1] < t[1]
    ELSE StrLess(Tail(s), Tail(t))

\* str.lower() on ASCII text
Lower(s) == [i \in 1..Len(s) |-> IF s[i] \in 65..90 THEN s[i] + 32 ELSE s[i]]

\* Python's `k in s` on strings: k is a contiguous substring of s
Contains(s, k) ==
    \E i \in 0..(Len(s) - Len(k)) : \A j \in 1..Len(k) : s[i + j] = k[j]

VARIABLES
    phase,            \* position in the pipeline of main.py
    fs,               \* the files found under the root, per path
    ix_repo_map,      \* RepositoryIndexer.repo_map
    ix_symbol_to_file,\* RepositoryIndexer.symbol_to_file
    repo_map,         \* DependencyGraphBuilder.repo_map
    symbol_to_file,   \* DependencyGraphBuilder.symbol_to_file
    graph,            \* DependencyGraphBuilder.graph
    depth_limit,      \* trace_call_sequence: depth_limit
    visited,          \* trace_call_sequence: visited
    sequence,         \* trace_call_sequence: sequence
    stack,            \* trace_call_sequence: the active dfs calls
    ret,              \* the last call that returned or raised
    code,             \* the source text handed to the chunker
    chunks,           \* the chunk list the chunker returned
    parser,           \* the CodeParser: its configuration and its parsers
    tree,             \* the language of the file and its syntax tree
    parse_result,     \* what parse_file returned for the file
    disk,             \* the root directory and the files under it
    client,           \* the LocalLLMClient: max_retries, retry_backoff_base
    attempt,          \* LocalLLMClient.query: the loop variable
    responses,        \* what the server answered to each request of the call
    waits             \* the arguments of time.sleep during the call

vars == <<phase, fs, ix_repo_map, ix_symbol_to_file, repo_map, symbol_to_file,
          graph, depth_limit, visited, sequence, stack, ret, code, chunks,
          parser, tree, parse_result, disk, client, attempt, responses, waits>>

queryVars == <<client, attempt, responses, waits>>

indexerVars == <<fs, ix_repo_map, ix_symbol_to_file, disk>>

builderVars == <<repo_map, symbol_to_file, graph>>

traceVars == <<depth_limit, visited, sequence, stack>>

chunkVars == <<code, chunks, parser, tree, parse_result>>

\* a pipeline without a CodeParser, a parsed file or a parse result
NoParser == [chunk_by |-> "none"]

NoTree == [ext |-> <<>>]

NoResult == [status |-> "none"]

\* a pipeline whose files are given by fs alone
NoDisk == [exists |-> FALSE]

\* a pipeline that has not built its LocalLLMClient
NoClient == [max_retries |-> 0, retry_backoff_base |-> 0]

(***************************************************************************)
(* networkx.DiGraph as the builder uses it: nodes in insertion order, and  *)
(* for every node its successors and predecessors in insertion order.      *)
(***************************************************************************)
EmptyGraph == [nodes |-> <<>>, succ |-> <<>>, pred |-> <<>>]

HasNode(G, n) == n \in Range(G.nodes)

add_node(G, n) ==
    IF HasNode(G, n) THEN G
    ELSE [nodes |-> Append(G.nodes, n),
          succ |-> G.succ @@ (n :> <<>>),
          pred |-> G.pred @@ (n :> <<>>)]

add_edge(G, u, v) ==
    LET G1 == add_node(add_node(G, u), v)
    IN  [nodes |-> G1.nodes,
         succ |-> [G1.succ EXCEPT ![u] = IF v \in Range(@) THEN @ ELSE Append(@, v)],
         pred |-> [G1.pred EXCEPT ![v] = IF u \in Range(@) THEN @ ELSE Append(@, u)]]

HasEdge(G, u, v) == HasNode(G, u) /\ v \in Range(G.succ[u])

in_degree(G, n) == Len(G.pred[n])

out_degree(G, n) == Len(G.succ[n])

(***************************************************************************)
(* DependencyGraphBuilder.build_graph                                      *)
(***************************************************************************)
\* build_graph without its first loop: a file becomes a node only through
\* an edge
AddNodes_none(G, entries) == G

\* for file_path in self.repo_map.keys(): self.graph.add_node(file_path)
RECURSIVE AddNodes(_, _)
AddNodes(G, entries) ==
    IF entries = <<>> THEN G
    ELSE AddNodes(add_node(G, entries[1].path), Tail(entries))

\* AddTargets with the edge turned round: add_edge(target_file, file_path)
RECURSIVE AddTargets_reversed(_, _, _)
AddTargets_reversed(G, file_path, target_files) ==
    IF target_files = <<>> THEN G
    ELSE AddTargets_reversed(IF target_files[1] # file_path
                             THEN add_edge(G, target_files[1], file_path)
                             ELSE G,
                             file_path, Tail(target_files))

\* for target_file in target_files: if target_file != file_path: add_edge
RECURSIVE AddTargets(_, _, _)
AddTargets(G, file_path, target_files) ==
    IF target_files = <<>> THEN G
    ELSE AddTargets(IF target_files[1] # file_path
                    THEN add_edge(G, file_path, target_files[1])
                    ELSE G,
                    file_path, Tail(target_files))

\* AddRefs without the test `if target_file != file_path` of its inner loop
RECURSIVE AddRefs_selfref(_, _, _, _)
AddRefs_selfref(G, st, file_path, references) ==
    LET RECURSIVE All(_, _)
        All(H, target_files) ==
            IF target_files = <<>> THEN H
            ELSE All(add_edge(H, file_path, target_files[1]), Tail(target_files))
    IN  IF references = <<>> THEN G
        ELSE AddRefs_selfref(IF references[1] # <<>>
                             THEN All(G, Get(st, references[1]))
                             ELSE G,
                             st, file_path, Tail(references))

\* for ref in references: if ref_name: target_files = symbol_to_file.get(...)
RECURSIVE AddRefs(_, _, _, _)
AddRefs(G, st, file_path, references) ==
    IF references = <<>> THEN G
    ELSE AddRefs(IF references[1] # <<>>
                 THEN AddTargets(G, file_path, Get(st, references[1]))
                 ELSE G,
                 st, file_path, Tail(references))

\* for file_path, info in self.repo_map.items(): ...; every round works on
\* the graph H that the round before it left
RECURSIVE AddFiles(_, _, _)
AddFiles(G, st, entries) ==
    IF entries = <<>> THEN G
    ELSE CHOOSE result \in
             {AddFiles(H, st, Tail(entries)) :
                  H \in {AddRefs(G, st, entries[1].path, entries[1].references)}} :
             TRUE

\* the first loop ends before the second starts
build_graph(G, rm, st) ==
    CHOOSE result \in {AddFiles(H, st, rm) : H \in {AddNodes(G, rm)}} : TRUE

(***************************************************************************)
(* Initial states: a builder constructed over any RepoMap and SymbolTable. *)
(***************************************************************************)
KeyLists == {s \in SeqsUpTo(Paths, MaxFiles) : NoDup(s)}

RefLists == SeqsUpTo(Names, MaxRefs)

RepoMaps ==
    UNION {{[i \in 1..Len(ks) |-> [path |-> ks[i], references |-> rs[i]]] :
                rs \in [1..Len(ks) -> RefLists]} : ks \in KeyLists}

SymbolTables == [Names \ {<<>>} -> SeqsUpTo(Paths, MaxDefs)]

NoCall == [op |-> "none", status |-> "none"]

Init ==
    /\ phase = "constructed"
    /\ fs = <<>>
    /\ ix_repo_map = <<>>
    /\ ix_symbol_to_file = <<>>
    /\ repo_map \in RepoMaps
    /\ symbol_to_file \in SymbolTables
    /\ graph = EmptyGraph
    /\ depth_limit = 0
    /\ visited = {}
    /\ sequence = <<>>
    /\ stack = <<>>
    /\ ret = NoCall
    /\ code = <<>>
    /\ chunks = <<>>
    /\ parser = NoParser
    /\ tree = NoTree
    /\ parse_result = NoResult
    /\ disk = NoDisk
    /\ client = NoClient
    /\ attempt = 0
    /\ responses = <<>>
    /\ waits = <<>>

\* no call is running and the caller holds no unconsumed result
Idle == stack = <<>> /\ ret = NoCall

\* the graph has been built, as main.py does right after construction
Built == Idle /\ phase = "built"

BuildGraph ==
    /\ Idle
    /\ phase \in {"constructed", "built", "changed"}
    /\ graph' = build_graph(graph, repo_map, symbol_to_file)
    /\ phase' = IF phase = "changed" THEN "rebuilt" ELSE "built"
    /\ ret' = [op |-> "build_graph", status |-> "returned"]
    /\ UNCHANGED <<queryVars, indexerVars, repo_map, symbol_to_file, traceVars, chunkVars>>

(***************************************************************************)
(* DependencyGraphBuilder.get_dependencies / get_dependents.               *)
(* DiGraph.successors(n) and DiGraph.predecessors(n) raise NetworkXError   *)
(* when n is not a node of the graph.                                      *)
(***************************************************************************)
get_dependencies(G, file_path) ==
    IF HasNode(G, file_path)
    THEN [status |-> "returned", value |-> G.succ[file_path]]
    ELSE [status |-> "raised", value |-> <<>>]

get_dependents(G, file_path) ==
    IF HasNode(G, file_path)
    THEN [status |-> "returned", value |-> G.pred[file_path]]
    ELSE [status |-> "raised", value |-> <<>>]

GetDependencies ==
    /\ Built
    /\ \E file_path \in Paths :
        LET r == get_dependencies(graph, file_path)
        IN  ret' = [op |-> "get_dependencies", arg |-> file_path,
                    status |-> r.status, value |-> r.value]
    /\ UNCHANGED <<queryVars, phase, indexerVars, builderVars, traceVars, chunkVars>>

GetDependents ==
    /\ Built
    /\ \E file_path \in Paths :
        LET r == get_dependents(graph, file_path)
        IN  ret' = [op |-> "get_dependents", arg |-> file_path,
                    status |-> r.status, value |-> r.value]
    /\ UNCHANGED <<queryVars, phase, indexerVars, builderVars, traceVars, chunkVars>>

(***************************************************************************)
(* DependencyGraphBuilder.get_central_files                                *)
(***************************************************************************)
\* sorted(in_degree.items(), key=lambda x: x[1], reverse=True): a stable
\* sort, so that files of equal in-degree keep the order of the input
RECURSIVE InsertDesc(_, _, _)
InsertDesc(G, sorted, x) ==
    IF sorted = <<>> THEN <<x>>
    ELSE IF in_degree(G, sorted[1]) >= in_degree(G, x)
         THEN <<sorted[1]>> \o InsertDesc(G, Tail(sorted), x)
         ELSE <<x>> \o sorted

RECURSIVE SortedDesc(_, _)
SortedDesc(G, items) ==
    IF items = <<>> THEN <<>>
    ELSE InsertDesc(G, SortedDesc(G, SubSeq(items, 1, Len(items) - 1)),
                    items[Len(items)])

\* s[:n] for n >= 0
Prefix(s, n) == SubSeq(s, 1, IF n < Len(s) THEN n ELSE Len(s))

get_central_files(G, top_n) ==
    IF Len(G.nodes) = 0 THEN <<>>
    ELSE Prefix(SortedDesc(G, G.nodes), top_n)

GetCentralFiles ==
    /\ Built
    /\ \E top_n \in 0..MaxTopN :
        ret' = [op |-> "get_central_files", top_n |-> top_n,
                status |-> "returned",
                value |-> get_central_files(graph, top_n)]
    /\ UNCHANGED <<queryVars, phase, indexerVars, builderVars, traceVars, chunkVars>>

(***************************************************************************)
(* DependencyGraphBuilder.find_entry_points                                *)
(***************************************************************************)
\* any(keyword in file_lower for keyword in self.entry_point_keywords)
is_named_entry(file_path, keywords) ==
    \E i \in 1..Len(keywords) : Contains(Lower(file_path), keywords[i])

is_entry_point(G, file_path, keywords, min_dependents, max_dependencies) ==
    \/ /\ in_degree(G, file_path) > min_dependents
       /\ out_degree(G, file_path) < max_dependencies
    \/ is_named_entry(file_path, keywords)

RECURSIVE EntryFilter(_, _, _, _, _)
EntryFilter(G, nodes, keywords, min_dependents, max_dependencies) ==
    IF nodes = <<>> THEN <<>>
    ELSE (IF is_entry_point(G, nodes[1], keywords, min_dependents, max_dependencies)
          THEN <<nodes[1]>> ELSE <<>>)
         \o EntryFilter(G, Tail(nodes), keywords, min_dependents, max_dependencies)

find_entry_points(G, keywords, min_dependents, max_dependencies) ==
    EntryFilter(G, G.nodes, keywords, min_dependents, max_dependencies)

\* entry_point_keywords, min_dependents and max_dependencies are fields the
\* constructor sets and nothing changes: they are drawn at the call
FindEntryPoints ==
    /\ Built
    /\ \E keywords \in KeywordLists, min_dependents \in 0..MaxThreshold,
          max_dependencies \in 0..MaxThreshold :
        ret' = [op |-> "find_entry_points", keywords |-> keywords,
                min_dependents |-> min_dependents,
                max_dependencies |-> max_dependencies,
                status |-> "returned",
                value |-> find_entry_points(graph, keywords, min_dependents,
                                            max_dependencies)]
    /\ UNCHANGED <<queryVars, phase, indexerVars, builderVars, traceVars, chunkVars>>

(***************************************************************************)
(* DependencyGraphBuilder.trace_call_sequence.  The recursion of dfs is    *)
(* the stack of its active calls: a frame holds the node of the call, its  *)
(* depth and the position of its loop over graph.successors(node).         *)
(***************************************************************************)
\* dfs's guard without the visited-set
dfs_returns_early_novisited(node, depth, limit, seen) == depth > limit

\* dfs's guard without the depth limit
dfs_returns_early_nodepth(node, depth, limit, seen) == node \in seen

\* dfs's guard: if depth > depth_limit or node in visited: return
dfs_returns_early(node, depth, limit, seen) == depth > limit \/ node \in seen

\* dfs(start_file, 0)
TraceCall ==
    /\ Built
    /\ \E start_file \in Paths, max_depth \in 0..MaxDepth :
        IF dfs_returns_early(start_file, 0, max_depth, {})
        THEN /\ ret' = [op |-> "trace_call_sequence", arg |-> start_file,
                        max_depth |-> max_depth, status |-> "returned",
                        value |-> <<>>]
             /\ UNCHANGED traceVars
        ELSE IF HasNode(graph, start_file)
        THEN /\ depth_limit' = max_depth
             /\ visited' = {start_file}
             /\ sequence' = <<start_file>>
             /\ stack' = <<[node |-> start_file, depth |-> 0, i |-> 1]>>
             /\ ret' = [op |-> "trace_call_sequence", arg |-> start_file,
                        max_depth |-> max_depth, status |-> "running",
                        value |-> <<>>]
        ELSE \* self.graph.successors(start_file) raises NetworkXError
             /\ ret' = [op |-> "trace_call_sequence", arg |-> start_file,
                        max_depth |-> max_depth, status |-> "raised",
                        value |-> <<>>]
             /\ UNCHANGED traceVars
    /\ UNCHANGED <<queryVars, phase, indexerVars, builderVars, chunkVars>>

Top == stack[Len(stack)]

\* a loop over every file of the graph
TopSuccessors_all == graph.nodes

TopSuccessors == graph.succ[Top.node]

\* a loop over the successors that never moves to the next one
Advance_stuck == stack

\* the for loop of dfs moves to the next successor
Advance == [stack EXCEPT ![Len(stack)].i = @ + 1]

\* the loop calls dfs(successor, depth + 1), which returns at its guard
DfsSkip ==
    /\ stack # <<>>
    /\ Top.i <= Len(TopSuccessors)
    /\ dfs_returns_early(TopSuccessors[Top.i], Top.depth + 1, depth_limit, visited)
    /\ stack' = Advance
    /\ UNCHANGED <<queryVars, phase, indexerVars, builderVars, depth_limit, visited,
                   sequence, ret, chunkVars>>

\* the loop calls dfs(successor, depth + 1), which visits the successor
DfsVisit ==
    /\ stack # <<>>
    /\ Top.i <= Len(TopSuccessors)
    /\ ~dfs_returns_early(TopSuccessors[Top.i], Top.depth + 1, depth_limit, visited)
    /\ visited' = visited \cup {TopSuccessors[Top.i]}
    /\ sequence' = Append(sequence, TopSuccessors[Top.i])
    /\ stack' = Append(Advance, [node |-> TopSuccessors[Top.i],
                                 depth |-> Top.depth + 1, i |-> 1])
    /\ UNCHANGED <<queryVars, phase, indexerVars, builderVars, depth_limit, ret, chunkVars>>

\* the loop of the innermost dfs is over: it returns; the outermost one
\* returning ends trace_call_sequence, which returns sequence (its locals
\* depth_limit, visited and sequence end with the call)
DfsReturn ==
    /\ stack # <<>>
    /\ Top.i > Len(TopSuccessors)
    /\ stack' = SubSeq(stack, 1, Len(stack) - 1)
    /\ IF Len(stack) = 1
       THEN /\ ret' = [op |-> "trace_call_sequence", arg |-> ret.arg,
                       max_depth |-> ret.max_depth, status |-> "returned",
                       value |-> sequence]
            /\ depth_limit' = 0
            /\ visited' = {}
            /\ sequence' = <<>>
       ELSE UNCHANGED <<queryVars, ret, depth_limit, visited, sequence>>
    /\ UNCHANGED <<queryVars, phase, indexerVars, builderVars, chunkVars>>

\* the caller takes the value a call returned, or handles what it raised
Return ==
    /\ stack = <<>>
    /\ ret # NoCall
    /\ ret' = NoCall
    /\ UNCHANGED <<queryVars, phase, indexerVars, builderVars, traceVars, chunkVars>>

DfsStep == DfsSkip \/ DfsVisit \/ DfsReturn

\* the builder and its queries that return at once
Next ==
    \/ BuildGraph
    \/ GetDependencies
    \/ GetDependents
    \/ GetCentralFiles
    \/ FindEntryPoints
    \/ Return

Spec == Init /\ [][Next]_vars

\* the builder and trace_call_sequence, one call of dfs at a time
TraceNext ==
    \/ BuildGraph
    \/ TraceCall
    \/ DfsSkip
    \/ DfsVisit
    \/ DfsReturn
    \/ Return

\* the calls of dfs follow one another until trace_call_sequence returns
TraceSpec == Init /\ [][TraceNext]_vars /\ WF_vars(DfsStep)

(***************************************************************************)
(* RepositoryIndexer.index_codebase.  A file under the root is "absent"    *)
(* (no file of that path is collected), "skipped" (larger than             *)
(* max_file_size, or blank), "raises" (reading, parsing or chunking it     *)
(* raises) or "source", with the definitions and references parse_file     *)
(* returns for it.                                                         *)
(***************************************************************************)
\* sorted(files): the collected paths in ascending order
RECURSIVE SortedPaths(_)
SortedPaths(S) ==
    IF S = {} THEN <<>>
    ELSE LET m == CHOOSE x \in S : \A y \in S \ {x} : StrLess(x, y)
         IN  <<m>> \o SortedPaths(S \ {m})

collect_files(files) == SortedPaths({p \in DOMAIN files : files[p].kind # "absent"})

\* self.repo_map[rel_path] = {...}: a new key goes last, a known key keeps
\* its place
DictSet(rm, entry) ==
    IF \E i \in 1..Len(rm) : rm[i].path = entry.path
    THEN [i \in 1..Len(rm) |-> IF rm[i].path = entry.path THEN entry ELSE rm[i]]
    ELSE Append(rm, entry)

\* a symbol table that keeps only the last file of a name
RECURSIVE AddSymbols_overwrite(_, _, _)
AddSymbols_overwrite(st, rel_path, definitions) ==
    IF definitions = <<>> THEN st
    ELSE AddSymbols_overwrite(IF definitions[1] # <<>>
                              THEN IF definitions[1] \in DOMAIN st
                                   THEN [st EXCEPT ![definitions[1]] = <<rel_path>>]
                                   ELSE st @@ (definitions[1] :> <<rel_path>>)
                              ELSE st,
                              rel_path, Tail(definitions))

\* for defn in parse_result['definitions']: if symbol_name: ...append(rel_path)
RECURSIVE AddSymbols(_, _, _)
AddSymbols(st, rel_path, definitions) ==
    IF definitions = <<>> THEN st
    ELSE AddSymbols(IF definitions[1] # <<>>
                    THEN IF definitions[1] \in DOMAIN st
                         THEN [st EXCEPT ![definitions[1]] = Append(@, rel_path)]
                         ELSE st @@ (definitions[1] :> <<rel_path>>)
                    ELSE st,
                    rel_path, Tail(definitions))

\* the body of the loop over the collected files, for one file
IndexFile(ix, files, file_path) ==
    IF files[file_path].kind = "source"
    THEN [repo_map |-> DictSet(ix.repo_map,
                               [path |-> file_path,
                                definitions |-> files[file_path].definitions,
                                references |-> files[file_path].references]),
          symbol_to_file |-> AddSymbols(ix.symbol_to_file, file_path,
                                        files[file_path].definitions)]
    ELSE ix \* continue: skipped, or the exception is caught

\* a walk that ends at the first file that raises
RECURSIVE IndexFiles_stop(_, _, _)
IndexFiles_stop(ix, files, todo) ==
    IF todo = <<>> \/ files[todo[1]].kind = "raises" THEN ix
    ELSE IndexFiles_stop(IndexFile(ix, files, todo[1]), files, Tail(todo))

\* for file_path in files: try: ... except Exception: continue
RECURSIVE IndexFiles(_, _, _)
IndexFiles(ix, files, todo) ==
    IF todo = <<>> THEN ix
    ELSE IndexFiles(IndexFile(ix, files, todo[1]), files, Tail(todo))

index_codebase(files) ==
    IndexFiles([repo_map |-> <<>>, symbol_to_file |-> <<>>], files,
               collect_files(files))

FileKinds ==
    {[kind |-> k, definitions |-> <<>>, references |-> <<>>] :
         k \in {"absent", "skipped", "raises"}}
    \cup {[kind |-> "source", definitions |-> ds, references |-> rs] :
              ds \in SeqsUpTo(Names, MaxFileDefs), rs \in SeqsUpTo(Names, MaxRefs)}

\* main.py before the index pass: any files under the root
PipelineInit ==
    /\ phase = "start"
    /\ fs \in [Paths -> FileKinds]
    /\ ix_repo_map = <<>>
    /\ ix_symbol_to_file = <<>>
    /\ repo_map = <<>>
    /\ symbol_to_file = <<>>
    /\ graph = EmptyGraph
    /\ depth_limit = 0
    /\ visited = {}
    /\ sequence = <<>>
    /\ stack = <<>>
    /\ ret = NoCall
    /\ code = <<>>
    /\ chunks = <<>>
    /\ parser = NoParser
    /\ tree = NoTree
    /\ parse_result = NoResult
    /\ disk = NoDisk
    /\ client = NoClient
    /\ attempt = 0
    /\ responses = <<>>
    /\ waits = <<>>

IndexCodebase ==
    /\ Idle
    /\ phase = "start"
    /\ LET ix == index_codebase(fs)
       IN  /\ ix_repo_map' = ix.repo_map
           /\ ix_symbol_to_file' = ix.symbol_to_file
    /\ phase' = "indexed"
    /\ ret' = [op |-> "index_codebase", status |-> "returned"]
    /\ UNCHANGED <<queryVars, fs, disk, builderVars, traceVars, chunkVars>>

\* main.py: DependencyGraphBuilder(repo_map, indexer.symbol_to_file, ...)
NewBuilder ==
    /\ Idle
    /\ phase = "indexed"
    /\ repo_map' = ix_repo_map
    /\ symbol_to_file' = ix_symbol_to_file
    /\ graph' = EmptyGraph
    /\ phase' = "constructed"
    /\ UNCHANGED <<queryVars, indexerVars, traceVars, ret, chunkVars>>

PipelineNext ==
    \/ IndexCodebase
    \/ NewBuilder
    \/ BuildGraph
    \/ GetDependencies
    \/ GetDependents
    \/ Return

PipelineSpec == PipelineInit /\ [][PipelineNext]_vars

(***************************************************************************)
(* CodeParser._chunk_by_size                                               *)
(***************************************************************************)
\* code.split('\n')
RECURSIVE Split(_)
Split(text) ==
    IF \A i \in 1..Len(text) : text[i] # 10 THEN <<text>>
    ELSE LET k == CHOOSE i \in 1..Len(text) :
                      text[i] = 10 /\ \A j \in 1..(i - 1) : text[j] # 10
         IN  <<SubSeq(text, 1, k - 1)>> \o Split(SubSeq(text, k + 1, Len(text)))

\* '\n'.join(chunk_lines)
RECURSIVE Join(_)
Join(lines) ==
    IF lines = <<>> THEN <<>>
    ELSE IF Len(lines) = 1 THEN lines[1]
    ELSE lines[1] \o <<10>> \o Join(Tail(lines))

\* lines[i:i + max_lines]
Slice(lines, i, max_lines) ==
    SubSeq(lines, i + 1, IF i + max_lines < Len(lines) THEN i + max_lines ELSE Len(lines))

\* a window whose end_line is i + max_lines, whatever lines are left
SizeChunk_unclipped(lines, i, max_lines) ==
    [text |-> Join(Slice(lines, i, max_lines)),
     type |-> "default_chunk_type",
     name |-> <<i + 1, i + max_lines>>,
     start_line |-> i + 1,
     end_line |-> i + max_lines]

\* the chunk of one round of the loop; its name is default_chunk_name_format
\* filled with start_line and end_line, kept as the pair of the two
SizeChunk(lines, i, max_lines) ==
    [text |-> Join(Slice(lines, i, max_lines)),
     type |-> "default_chunk_type",
     name |-> <<i + 1, i + Len(Slice(lines, i, max_lines))>>,
     start_line |-> i + 1,
     end_line |-> i + Len(Slice(lines, i, max_lines))]

\* for i in range(0, len(lines), max_lines)
RECURSIVE SizeWindows(_, _, _)
SizeWindows(lines, i, max_lines) ==
    IF i >= Len(lines) THEN <<>>
    ELSE <<SizeChunk(lines, i, max_lines)>> \o SizeWindows(lines, i + max_lines, max_lines)

chunk_by_size(text, max_lines) == SizeWindows(Split(text), 0, max_lines)

ChunkInit ==
    /\ phase = "start"
    /\ fs = <<>>
    /\ ix_repo_map = <<>>
    /\ ix_symbol_to_file = <<>>
    /\ repo_map = <<>>
    /\ symbol_to_file = <<>>
    /\ graph = EmptyGraph
    /\ depth_limit = 0
    /\ visited = {}
    /\ sequence = <<>>
    /\ stack = <<>>
    /\ ret = NoCall
    /\ code \in SeqsUpTo(SrcChars, MaxSrcLen)
    /\ chunks = <<>>
    /\ parser = NoParser
    /\ tree = NoTree
    /\ parse_result = NoResult
    /\ disk = NoDisk
    /\ client = NoClient
    /\ attempt = 0
    /\ responses = <<>>
    /\ waits = <<>>

ChunkBySize ==
    /\ Idle
    /\ \E max_lines \in 1..MaxChunkLines :
        /\ chunks' = chunk_by_size(code, max_lines)
        /\ ret' = [op |-> "chunk_by_size", max_lines |-> max_lines,
                   status |-> "returned"]
    /\ UNCHANGED <<queryVars, phase, indexerVars, builderVars, traceVars, code, parser, tree,
                   parse_result>>

ChunkNext ==
    \/ ChunkBySize
    \/ Return

ChunkSpec == ChunkInit /\ [][ChunkNext]_vars

(***************************************************************************)
(* CodeParser.chunk_code on a file with a syntax tree.  The tree is what   *)
(* the parsing library returns for the source: the children of the root    *)
(* (tree-sitter) or the statements of the module body (Python's ast), each *)
(* node with its type, its name, its first and last line and its children  *)
(* in source order.                                                        *)
(***************************************************************************)
\* the names of the declarations: "f"; <<>> is a node without a name child
NodeNames == {<<102>>}

\* node types of a tree-sitter grammar and statement types of Python's ast
TsTypes == {"class_declaration", "method_declaration"}

PyTypes == {"ClassDef", "FunctionDef", "AsyncFunctionDef", "If"}

RECURSIVE NodeCount(_), ForestCount(_)
NodeCount(node) == 1 + ForestCount(node.children)

ForestCount(f) == IF f = <<>> THEN 0 ELSE NodeCount(Head(f)) + ForestCount(Tail(f))

\* the lists of at most n nodes on the lines lo..hi, in source order; with
\* gap = 0 a node may start on the line where its parent starts or where the
\* node before it ends (tree-sitter), with gap = 1 it starts on a later line
\* (statements of a Python block)
RECURSIVE Forests(_, _, _, _, _), SyntaxNodes(_, _, _, _, _)
SyntaxNodes(T, gap, n, lo, hi) ==
    IF n = 0 THEN {}
    ELSE UNION {UNION {{[type |-> t, name |-> nm, start_line |-> s,
                         end_line |-> e, children |-> c] :
                            t \in T, nm \in NodeNames,
                            c \in Forests(T, gap, n - 1, s + gap, e)} :
                       e \in s..hi} : s \in lo..hi}

Forests(T, gap, n, lo, hi) ==
    {<<>>} \cup
    UNION {{<<first>> \o rest :
                rest \in Forests(T, gap, n - NodeCount(first),
                                 first.end_line + gap, hi)} :
               first \in SyntaxNodes(T, gap, n, lo, hi)}

\* the suffixes ".py", ".java", ".js" and ".txt"
ExtPy == <<46, 112, 121>>

ExtJava == <<46, 106, 97, 118, 97>>

ExtJs == <<46, 106, 115>>

ExtTxt == <<46, 116, 120, 116>>

\* a source text of n lines
SourceOfLines(n) == Join([i \in 1..n |-> <<97>>])

\* a file: its source, the lower-cased suffix of its path, and the syntax
\* tree of the source: the declarations (body) and, in the order a traversal
\* meets them, the call sites and type identifiers (sites, each with its
\* kind, the text of the callee expression or of the identifier, and its
\* line); ok is false when ast.parse raises SyntaxError
SourceFile(n, ext, ok, body) ==
    [code |-> SourceOfLines(n), ext |-> ext, ok |-> ok, body |-> body,
     sites |-> <<>>]

\* the files of at most max_nodes declarations
SourceFiles(max_nodes) ==
    UNION {{SourceFile(n, ExtJava, TRUE, b) :
                b \in Forests(TsTypes, 0, max_nodes, 1, n)}
           \cup {SourceFile(n, ExtPy, TRUE, b) :
                b \in Forests(PyTypes, 1, max_nodes, 1, n)}
           \cup {SourceFile(n, ExtPy, FALSE, <<>>), SourceFile(n, ExtTxt, FALSE, <<>>)} :
               n \in 1..MaxTreeLines}

\* language_map of the configuration: extension to language
FullLanguageMap ==
    [e \in {ExtPy, ExtJava, ExtJs} |->
        CASE e = ExtPy -> "python" [] e = ExtJava -> "java" [] e = ExtJs -> "javascript"]

\* self.parsers after _init_parsers: empty without tree-sitter-languages,
\* else the marker 'python_ast' for python and a Parser for the others
FullParserTable ==
    [l \in {"python", "java", "javascript"} |->
        IF l = "python" THEN "python_ast" ELSE "Parser"]

ParserTables == {<<>>, FullParserTable}

\* the CodeParser configurations; chunk_node_types and sub_chunk_types are
\* the lists configured for the language of the file
ParserConfigs ==
    {[max_chunk_lines |-> m, chunk_by |-> "function_or_class",
      language_map |-> FullLanguageMap, parsers |-> FullParserTable,
      chunk_node_types |-> ct, sub_chunk_types |-> st] :
         m \in 1..MaxDeclChunkLines,
         ct \in {{"class_declaration"}, {"class_declaration", "method_declaration"}},
         st \in {{}, {"method_declaration"}}}
    \cup {[max_chunk_lines |-> m, chunk_by |-> cb,
           language_map |-> FullLanguageMap, parsers |-> <<>>,
           chunk_node_types |-> {"class_declaration"},
           sub_chunk_types |-> {"method_declaration"}] :
              m \in 1..MaxDeclChunkLines, cb \in {"function_or_class", "size"}}

\* get_language: language_map.get(ext); "" is None
get_language(P, file) ==
    IF file.ext \in DOMAIN P.language_map THEN P.language_map[file.ext] ELSE ""

\* the configured default_node_name: "_"
default_node_name == <<95>>

\* _get_node_name: the text of the name child, else default_node_name
get_node_name(node) == IF node.name = <<>> THEN default_node_name ELSE node.name

\* _get_node_text_from_lines: '\n'.join(lines[start_line - 1:end_line])
get_node_text_from_lines(text, start_line, end_line) ==
    Join(Slice(Split(text), start_line - 1, end_line - start_line + 1))

\* the chunk of a tree-sitter node
NodeChunk(node, text) ==
    [text |-> get_node_text_from_lines(text, node.start_line, node.end_line),
     type |-> node.type,
     name |-> get_node_name(node),
     start_line |-> node.start_line,
     end_line |-> node.end_line]

\* _get_sub_chunks: the queue q of nodes to check, first in first out; a node
\* of a sub-chunk type is emitted and not descended into
RECURSIVE get_sub_chunks(_, _, _)
get_sub_chunks(q, text, sub_types) ==
    IF q = <<>> THEN <<>>
    ELSE IF Head(q).type \in sub_types
         THEN <<NodeChunk(Head(q), text)>> \o get_sub_chunks(Tail(q), text, sub_types)
         ELSE get_sub_chunks(Tail(q) \o Head(q).children, text, sub_types)

\* the chunks of one top-level node
TopLevelChunks(P, node, text) ==
    IF node.end_line - node.start_line > P.max_chunk_lines
    THEN LET sub_chunks == get_sub_chunks(node.children, text, P.sub_chunk_types)
         IN  IF sub_chunks # <<>> THEN sub_chunks ELSE <<NodeChunk(node, text)>>
    ELSE <<NodeChunk(node, text)>>

\* for node in top_level_nodes: chunks.extend(...) or chunks.append(...)
RECURSIVE ChunkTopLevel(_, _, _)
ChunkTopLevel(P, nodes, text) ==
    IF nodes = <<>> THEN <<>>
    ELSE TopLevelChunks(P, Head(nodes), text) \o ChunkTopLevel(P, Tail(nodes), text)

\* a tree-sitter path that returns what the loop over the top-level nodes
\* built, also when there is no top-level node
chunk_tree_sitter_noguard(P, body, text) ==
    ChunkTopLevel(P, SelectSeq(body, LAMBDA node : node.type \in P.chunk_node_types),
                  text)

\* the children of the root whose type is in chunk_node_types
chunk_tree_sitter(P, body, text) ==
    LET top_level_nodes == SelectSeq(body, LAMBDA node : node.type \in P.chunk_node_types)
    IN  IF top_level_nodes = <<>> THEN chunk_by_size(text, P.max_chunk_lines)
        ELSE ChunkTopLevel(P, top_level_nodes, text)

(***************************************************************************)
(* CodeParser._chunk_python_with_ast.  Since Python 3.8 every statement    *)
(* has an end_lineno, so end_line is node.end_lineno.                      *)
(***************************************************************************)
IsFunctionDef(node) == node.type \in {"FunctionDef", "AsyncFunctionDef"}

\* '\n'.join(lines[start - 1:end]) if end > start else lines[start - 1]
PyText(text, start_line, end_line) ==
    IF end_line > start_line
    THEN Join(Slice(Split(text), start_line - 1, end_line - start_line + 1))
    ELSE Split(text)[start_line]

PyChunk(node, type, text) ==
    [text |-> PyText(text, node.start_line, node.end_line),
     type |-> type,
     name |-> node.name,
     start_line |-> node.start_line,
     end_line |-> node.end_line]

\* for child in node.body: the functions that are direct children of a class
RECURSIVE MethodChunks(_, _)
MethodChunks(children, text) ==
    IF children = <<>> THEN <<>>
    ELSE (IF IsFunctionDef(Head(children))
          THEN <<PyChunk(Head(children),
                         IF Head(children).type = "AsyncFunctionDef"
                         THEN "async_function" ELSE "method", text)>>
          ELSE <<>>)
         \o MethodChunks(Tail(children), text)

\* the chunks of one statement of the module body
PyStatementChunks(P, node, text) ==
    IF IsFunctionDef(node)
    THEN <<PyChunk(node, IF node.type = "AsyncFunctionDef"
                         THEN "async_function" ELSE "function", text)>>
    ELSE IF node.type = "ClassDef"
    THEN IF node.end_line - node.start_line > P.max_chunk_lines
            /\ MethodChunks(node.children, text) # <<>>
         THEN MethodChunks(node.children, text)
         ELSE <<PyChunk(node, "class", text)>>
    ELSE <<>>

\* for node in tree.body
RECURSIVE PyBodyChunks(_, _, _)
PyBodyChunks(P, body, text) ==
    IF body = <<>> THEN <<>>
    ELSE PyStatementChunks(P, Head(body), text) \o PyBodyChunks(P, Tail(body), text)

\* chunks.sort(key=lambda x: x['start_line']): a stable sort
RECURSIVE InsertByStart(_, _)
InsertByStart(sorted, c) ==
    IF sorted = <<>> THEN <<c>>
    ELSE IF c.start_line < Head(sorted).start_line THEN <<c>> \o sorted
    ELSE <<Head(sorted)>> \o InsertByStart(Tail(sorted), c)

RECURSIVE SortByStart(_)
SortByStart(cs) ==
    IF cs = <<>> THEN <<>>
    ELSE InsertByStart(SortByStart(SubSeq(cs, 1, Len(cs) - 1)), cs[Len(cs)])

\* ast.parse raising SyntaxError, or no chunk at all: size windows
chunk_python_with_ast(P, file) ==
    IF ~file.ok THEN chunk_by_size(file.code, P.max_chunk_lines)
    ELSE LET cs == SortByStart(PyBodyChunks(P, file.body, file.code))
         IN  IF cs # <<>> THEN cs ELSE chunk_by_size(file.code, P.max_chunk_lines)

\* chunk_code: the strategy for the language of the file
chunk_code(P, file) ==
    LET lang == get_language(P, file)
    IN  IF lang = "" \/ P.chunk_by # "function_or_class"
        THEN chunk_by_size(file.code, P.max_chunk_lines)
        ELSE IF lang = "python" /\ lang \in DOMAIN P.parsers
                /\ P.parsers[lang] = "python_ast"
        THEN chunk_python_with_ast(P, file)
        ELSE IF lang \notin DOMAIN P.parsers
        THEN chunk_by_size(file.code, P.max_chunk_lines)
        ELSE IF P.parsers[lang] # "Parser"
        THEN chunk_by_size(file.code, P.max_chunk_lines)
        ELSE chunk_tree_sitter(P, file.body, file.code)

(***************************************************************************)
(* Python's re on the patterns of CodeParser._fallback_parse.  A pattern   *)
(* is a sequence of items: a character class with a greedy quantifier      *)
(* (min..max repetitions, max = -1 for no limit), or an optional group of  *)
(* alternative words.  At most one item is the capturing group.            *)
(***************************************************************************)
\* \w on ASCII text: letters, digits and the underscore
WordChars == (48..57) \cup (65..90) \cup {95} \cup (97..122)

\* \s on ASCII text: space, \t, \n, \v, \f, \r and the separators 28..31
SpaceChars == {32} \cup (9..13) \cup (28..31)

InClass(item, c) ==
    CASE item.cls = "w" -> c \in WordChars
      [] item.cls = "s" -> c \in SpaceChars
      [] item.cls = "lit" -> c = item.ch
      [] item.cls = "not" -> c # item.ch

Item(cls, ch, min, max, cap) ==
    [cls |-> cls, ch |-> ch, words |-> <<>>, min |-> min, max |-> max, cap |-> cap]

Lit(ch) == Item("lit", ch, 1, 1, FALSE)

\* the word as a sequence of literals
Word(w) == [i \in 1..Len(w) |-> Lit(w[i])]

\* r'class\s+(\w+)'
ClassPattern ==
    Word(<<99, 108, 97, 115, 115>>)
    \o <<Item("s", 0, 1, -1, FALSE), Item("w", 0, 1, -1, TRUE)>>

\* r'def\s+(\w+)\s*\('
DefPattern ==
    Word(<<100, 101, 102>>)
    \o <<Item("s", 0, 1, -1, FALSE), Item("w", 0, 1, -1, TRUE),
         Item("s", 0, 0, -1, FALSE), Lit(40)>>

\* r'(?:public|private|protected)?\s*\w+\s+(\w+)\s*\([^)]*\)\s*\{'
MethodPattern ==
    <<[cls |-> "words", ch |-> 0,
       words |-> <<<<112, 117, 98, 108, 105, 99>>,
                   <<112, 114, 105, 118, 97, 116, 101>>,
                   <<112, 114, 111, 116, 101, 99, 116, 101, 100>> >>,
       min |-> 0, max |-> 1, cap |-> FALSE],
      Item("s", 0, 0, -1, FALSE), Item("w", 0, 1, -1, FALSE),
      Item("s", 0, 1, -1, FALSE), Item("w", 0, 1, -1, TRUE),
      Item("s", 0, 0, -1, FALSE), Lit(40), Item("not", 41, 0, -1, FALSE),
      Lit(41), Item("s", 0, 0, -1, FALSE), Lit(123)>>

NoMatch == [ok |-> FALSE, end |-> 0, cap |-> <<>>]

\* the number of characters from pos on that the item can take
RECURSIVE Run(_, _, _, _)
Run(item, text, pos, n) ==
    IF pos + n <= Len(text) /\ (item.max = -1 \/ n < item.max)
       /\ InClass(item, text[pos + n])
    THEN Run(item, text, pos, n + 1)
    ELSE n

StartsWith(text, pos, w) ==
    /\ pos + Len(w) - 1 <= Len(text)
    /\ \A i \in 1..Len(w) : text[pos + i - 1] = w[i]

\* the match of the items k.. at position pos that backtracking finds first:
\* end is the position after it, cap the text of the capturing group
RECURSIVE MatchAt(_, _, _, _), TryCounts(_, _, _, _, _), TryWords(_, _, _, _, _)
MatchAt(items, k, text, pos) ==
    IF k > Len(items) THEN [ok |-> TRUE, end |-> pos, cap |-> <<>>]
    ELSE IF items[k].cls = "words" THEN TryWords(items, k, text, pos, 1)
    ELSE TryCounts(items, k, text, pos, Run(items[k], text, pos, 0))

\* greedy: the longest run first, then one character less
TryCounts(items, k, text, pos, n) ==
    IF n < items[k].min THEN NoMatch
    ELSE LET r == MatchAt(items, k + 1, text, pos + n)
         IN  IF r.ok
             THEN IF items[k].cap
                  THEN [r EXCEPT !.cap = SubSeq(text, pos, pos + n - 1)]
                  ELSE r
             ELSE TryCounts(items, k, text, pos, n - 1)

\* the alternatives in order, then the empty match of the optional group
TryWords(items, k, text, pos, w) ==
    IF w > Len(items[k].words) THEN MatchAt(items, k + 1, text, pos)
    ELSE LET r == IF StartsWith(text, pos, items[k].words[w])
                  THEN MatchAt(items, k + 1, text, pos + Len(items[k].words[w]))
                  ELSE NoMatch
         IN  IF r.ok THEN r ELSE TryWords(items, k, text, pos, w + 1)

\* re.finditer(pattern, code): the matches from left to right, none
\* overlapping; each with its start and the text of its group
RECURSIVE finditer(_, _, _)
finditer(items, text, pos) ==
    IF pos > Len(text) THEN <<>>
    ELSE LET r == MatchAt(items, 1, text, pos)
         IN  IF r.ok
             THEN <<[start |-> pos, group |-> r.cap]>> \o finditer(items, text, r.end)
             ELSE finditer(items, text, pos + 1)

(***************************************************************************)
(* CodeParser.parse_file.  A definition is a record of its type, name,     *)
(* line and methods (empty where the source has no 'methods' key); a       *)
(* reference is a record of its type, name and line.                       *)
(***************************************************************************)
\* code[:match.start()].count('\n') + 1
LineOfMatch(text, m) == Cardinality({i \in 1..(m.start - 1) : text[i] = 10}) + 1

\* the definitions of the matches of one pattern
MatchDefinitions(items, type, text) ==
    LET ms == finditer(items, text, 1)
    IN  [i \in 1..Len(ms) |->
            [type |-> type, name |-> ms[i].group,
             line |-> LineOfMatch(text, ms[i]), methods |-> <<>>]]

\* a fallback that extracts nothing
fallback_parse_empty(P, file) ==
    [status |-> "returned", definitions |-> <<>>, references |-> <<>>,
     language |-> get_language(P, file)]

\* _fallback_parse: regular expressions by extension, no references
fallback_parse(P, file) ==
    [status |-> "returned",
     definitions |->
        IF file.ext = ExtJava
        THEN MatchDefinitions(ClassPattern, "class", file.code)
             \o MatchDefinitions(MethodPattern, "method", file.code)
        ELSE IF file.ext = ExtPy
        THEN MatchDefinitions(ClassPattern, "class", file.code)
             \o MatchDefinitions(DefPattern, "function", file.code)
        ELSE <<>>,
     references |-> <<>>,
     language |-> get_language(P, file)]

\* the names of the functions that are direct children of a class
MethodNames(children) ==
    LET fs2 == SelectSeq(children, IsFunctionDef)
    IN  [i \in 1..Len(fs2) |-> fs2[i].name]

\* for node in tree.body: classes and functions of the module body
RECURSIVE PyDefinitions(_)
PyDefinitions(body) ==
    IF body = <<>> THEN <<>>
    ELSE (IF Head(body).type = "ClassDef"
          THEN <<[type |-> "class", name |-> Head(body).name,
                  line |-> Head(body).start_line,
                  methods |-> MethodNames(Head(body).children)]>>
          ELSE IF IsFunctionDef(Head(body))
          THEN <<[type |-> "function", name |-> Head(body).name,
                  line |-> Head(body).start_line, methods |-> <<>>]>>
          ELSE <<>>)
         \o PyDefinitions(Tail(body))

\* isinstance(node.func, python_ast.Name): the callee is a plain name
IsName(callee) == \A i \in 1..Len(callee) : callee[i] # 46

\* for node in python_ast.walk(tree): the calls whose callee is a Name
RECURSIVE PyReferences(_)
PyReferences(sites) ==
    IF sites = <<>> THEN <<>>
    ELSE (IF Head(sites).kind = "call" /\ IsName(Head(sites).text)
          THEN <<[type |-> "function_call", name |-> Head(sites).text,
                  line |-> Head(sites).line]>>
          ELSE <<>>)
         \o PyReferences(Tail(sites))

\* an extractor that gives up on a SyntaxError
parse_python_with_ast_giveup(P, file) ==
    [status |-> "returned",
     definitions |-> IF file.ok THEN PyDefinitions(file.body) ELSE <<>>,
     references |-> IF file.ok THEN PyReferences(file.sites) ELSE <<>>,
     language |-> "python"]

\* _parse_python_with_ast; a SyntaxError falls back to the regular expressions
parse_python_with_ast(P, file) ==
    IF ~file.ok THEN fallback_parse(P, file)
    ELSE [status |-> "returned",
          definitions |-> PyDefinitions(file.body),
          references |-> PyReferences(file.sites),
          language |-> "python"]

\* name.split('.')
RECURSIVE SplitDots(_)
SplitDots(text) ==
    IF \A i \in 1..Len(text) : text[i] # 46 THEN <<text>>
    ELSE LET k == CHOOSE i \in 1..Len(text) :
                      text[i] = 46 /\ \A j \in 1..(i - 1) : text[j] # 46
         IN  <<SubSeq(text, 1, k - 1)>> \o SplitDots(SubSeq(text, k + 1, Len(text)))

\* name.split('.')[-1]; also the name child of a Java method_invocation,
\* which the grammar makes the identifier after the last dot
LastSegment(text) == SplitDots(text)[Len(SplitDots(text))]

\* text[0].isupper()
IsUpper(c) == c \in 65..90

\* the method names in the class_body of a class_declaration
JavaMethodNames(node) ==
    LET bodies == SelectSeq(node.children, LAMBDA c : c.type = "class_body")
        ms == IF bodies = <<>> THEN <<>>
              ELSE SelectSeq(bodies[1].children,
                             LAMBDA c : c.type = "method_declaration" /\ c.name # <<>>)
    IN  [i \in 1..Len(ms) |-> ms[i].name]

\* _parse_java, traverse(node) before its children: a class with a name, or
\* a method whose name no method definition has yet
JavaVisit(defs, node) ==
    IF node.type = "class_declaration" /\ node.name # <<>>
    THEN Append(defs, [type |-> "class", name |-> node.name,
                       line |-> node.start_line, methods |-> JavaMethodNames(node)])
    ELSE IF node.type = "method_declaration" /\ node.name # <<>>
            /\ \A i \in 1..Len(defs) :
                   defs[i].type = "method" => defs[i].name # node.name
    THEN Append(defs, [type |-> "method", name |-> node.name,
                       line |-> node.start_line, methods |-> <<>>])
    ELSE defs

\* _parse_javascript, traverse(node) before its children
JsVisit(defs, node) ==
    IF node.name # <<>> /\ node.type \in {"class_declaration", "function_declaration",
                                        "method_definition"}
    THEN Append(defs, [type |-> CASE node.type = "class_declaration" -> "class"
                                  [] node.type = "function_declaration" -> "function"
                                  [] node.type = "method_definition" -> "method",
                       name |-> node.name, line |-> node.start_line,
                       methods |-> <<>>])
    ELSE defs

\* traverse(tree.root_node): every node, parents before children, in source
\* order
RECURSIVE Traverse(_, _, _)
Traverse(lang, defs, nodes) ==
    IF nodes = <<>> THEN defs
    ELSE Traverse(lang,
                  Traverse(lang,
                           IF lang = "java" THEN JavaVisit(defs, Head(nodes))
                           ELSE JsVisit(defs, Head(nodes)),
                           Head(nodes).children),
                  Tail(nodes))

\* the references of _parse_java: method invocations and capitalised type
\* identifiers
RECURSIVE JavaReferences(_)
JavaReferences(sites) ==
    IF sites = <<>> THEN <<>>
    ELSE (IF Head(sites).kind = "call"
          THEN <<[type |-> "method_call", name |-> LastSegment(Head(sites).text),
                  line |-> Head(sites).line]>>
          ELSE IF Head(sites).text # <<>> /\ IsUpper(Head(sites).text[1])
          THEN <<[type |-> "class_reference", name |-> Head(sites).text,
                  line |-> Head(sites).line]>>
          ELSE <<>>)
         \o JavaReferences(Tail(sites))

\* the references of _parse_javascript: call expressions
RECURSIVE JsReferences(_)
JsReferences(sites) ==
    IF sites = <<>> THEN <<>>
    ELSE (IF Head(sites).kind = "call" /\ Head(sites).text # <<>>
          THEN <<[type |-> "function_call", name |-> LastSegment(Head(sites).text),
                  line |-> Head(sites).line]>>
          ELSE <<>>)
         \o JsReferences(Tail(sites))

\* parse_file: the extractor for the language of the file.  A python file
\* never has a tree-sitter Parser, so _parse_python is never called.
parse_file(P, file) ==
    LET lang == get_language(P, file)
    IN  IF lang = "" THEN fallback_parse(P, file)
        ELSE IF lang = "python" /\ lang \in DOMAIN P.parsers
                /\ P.parsers[lang] = "python_ast"
        THEN parse_python_with_ast(P, file)
        ELSE IF lang \notin DOMAIN P.parsers THEN fallback_parse(P, file)
        ELSE IF P.parsers[lang] # "Parser" THEN fallback_parse(P, file)
        ELSE [status |-> "returned",
              definitions |-> IF lang \in {"java", "javascript", "typescript"}
                              THEN Traverse(lang, <<>>, file.body) ELSE <<>>,
              references |-> IF lang = "java" THEN JavaReferences(file.sites)
                             ELSE IF lang \in {"javascript", "typescript"}
                             THEN JsReferences(file.sites) ELSE <<>>,
              language |-> lang]

\* a CodeParser and a file it is about to chunk
DeclInit ==
    /\ phase = "start"
    /\ fs = <<>>
    /\ ix_repo_map = <<>>
    /\ ix_symbol_to_file = <<>>
    /\ repo_map = <<>>
    /\ symbol_to_file = <<>>
    /\ graph = EmptyGraph
    /\ depth_limit = 0
    /\ visited = {}
    /\ sequence = <<>>
    /\ stack = <<>>
    /\ ret = NoCall
    /\ chunks = <<>>
    /\ tree \in SourceFiles(MaxNodes)
    /\ parser \in ParserConfigs
    /\ code = tree.code
    /\ parse_result = NoResult
    /\ disk = NoDisk
    /\ client = NoClient
    /\ attempt = 0
    /\ responses = <<>>
    /\ waits = <<>>

\* indexer.py line 70: parse_result = self.parser.parse_file(file_path, code)
ParseFile ==
    /\ phase = "start"
    /\ parse_result' = parse_file(parser, tree)
    /\ phase' = "parsed"
    /\ ret' = [op |-> "parse_file", status |-> "returned"]
    /\ UNCHANGED <<queryVars, indexerVars, builderVars, traceVars, code, chunks, parser, tree>>

\* indexer.py line 71: chunks = self.parser.chunk_code(file_path, code)
ChunkCode ==
    /\ phase = "parsed"
    /\ chunks' = chunk_code(parser, tree)
    /\ phase' = "chunked"
    /\ ret' = [op |-> "chunk_code", status |-> "returned"]
    /\ UNCHANGED <<queryVars, indexerVars, builderVars, traceVars, code, parser, tree,
                   parse_result>>

DeclNext ==
    \/ ParseFile
    \/ ChunkCode

DeclSpec == DeclInit /\ [][DeclNext]_vars

(***************************************************************************)
(* RepositoryIndexer on a directory: _collect_files, _matches_pattern and  *)
(* the loop of index_codebase with parse_file and chunk_code, called by    *)
(* main.py after its check of the root.                                    *)
(***************************************************************************)
\* the root directory "r"
RootPath == <<114>>

\* the relative paths "a/b.py", "a/x/b.py" and "c.txt"
DiskPaths ==
    {<<97, 47, 98, 46, 112, 121>>, <<97, 47, 120, 47, 98, 46, 112, 121>>,
     <<99, 46, 116, 120, 116>>}

\* str(file_path) of a file that rglob yields under the root
FullPath(rel) == RootPath \o <<47>> \o rel

\* os.path.relpath(file_path, root_path)
relpath(file_path) == SubSeq(file_path, Len(RootPath) + 2, Len(file_path))

\* the texts "", " \n", "\ndef f(" and "def f(): g()", with what ast.parse
\* makes of them
FileContents ==
    {[code |-> <<>>, ok |-> TRUE, body |-> <<>>, sites |-> <<>>],
     [code |-> <<32, 10>>, ok |-> TRUE, body |-> <<>>, sites |-> <<>>],
     [code |-> <<10, 100, 101, 102, 32, 102, 40>>, ok |-> FALSE, body |-> <<>>,
      sites |-> <<>>],
     [code |-> <<100, 101, 102, 32, 102, 40, 41, 58, 32, 103, 40, 41>>,
      ok |-> TRUE,
      body |-> <<[type |-> "FunctionDef", name |-> <<102>>, start_line |-> 1,
                  end_line |-> 1, children |-> <<>>]>>,
      sites |-> <<[kind |-> "call", text |-> <<103>>, line |-> 1]>>]}

NoContent == [code |-> <<>>, ok |-> TRUE, body |-> <<>>, sites |-> <<>>]

\* a path of the directory: no file, a file that cannot be read, or a file
\* and its content
DiskFiles ==
    {[present |-> FALSE, readable |-> FALSE, content |-> NoContent],
     [present |-> TRUE, readable |-> FALSE, content |-> NoContent]}
    \cup {[present |-> TRUE, readable |-> TRUE, content |-> c] : c \in FileContents}

NoFile == [present |-> FALSE, readable |-> FALSE, content |-> NoContent]

\* the root is missing, or is a directory with any files
Disks ==
    {[exists |-> FALSE, files |-> [p \in DiskPaths |-> NoFile]]}
    \cup {[exists |-> TRUE, files |-> f] : f \in [DiskPaths -> DiskFiles]}

\* the extension lists [".py"], [".py", ".txt"] and [".py", "py"]
ExtensionLists == {<<ExtPy>>, <<ExtPy, ExtTxt>>, <<ExtPy, <<112, 121>>>>}

\* the exclude lists [], ["a/**/b.py"], ["**/x/**"] and ["*.txt"]
ExcludeLists ==
    {<<>>,
     <<<<97, 47, 42, 42, 47, 98, 46, 112, 121>>>>,
     <<<<42, 42, 47, 120, 47, 42, 42>>>>,
     <<<<42, 46, 116, 120, 116>>>>}

\* the values of max_file_size
FileSizes == {7, 100}

\* the parsers of an index pass: with and without ".py" in language_map,
\* with and without tree-sitter-languages
IndexParsers ==
    {[max_chunk_lines |-> 1, chunk_by |-> "function_or_class",
      language_map |-> lm, parsers |-> pt,
      chunk_node_types |-> {"class_declaration"},
      sub_chunk_types |-> {"method_declaration"}] :
         lm \in {FullLanguageMap, [e \in {ExtJava} |-> "java"]},
         pt \in ParserTables}

\* the index of the last c in s, 0 if there is none
LastIndexOf(s, c) ==
    IF \E i \in 1..Len(s) : s[i] = c
    THEN CHOOSE i \in 1..Len(s) : s[i] = c /\ \A j \in (i + 1)..Len(s) : s[j] # c
    ELSE 0

\* Path(file_path).name
BaseName(path) == SubSeq(path, LastIndexOf(path, 47) + 1, Len(path))

\* Path(file_path).suffix.lower()
suffix(path) ==
    LET name == BaseName(path)
        i == LastIndexOf(name, 46)
    IN  IF 1 < i /\ i < Len(name) THEN Lower(SubSeq(name, i, Len(name))) ELSE <<>>

\* fnmatch.fnmatch(s, pat) for patterns of "*", "?" and plain characters
RECURSIVE fnmatch(_, _)
fnmatch(s, pat) ==
    IF pat = <<>> THEN s = <<>>
    ELSE IF Head(pat) = 42
    THEN fnmatch(s, Tail(pat)) \/ (s # <<>> /\ fnmatch(Tail(s), pat))
    ELSE /\ s # <<>>
         /\ Head(pat) = 63 \/ Head(pat) = Head(s)
         /\ fnmatch(Tail(s), Tail(pat))

\* text.replace(old, '')
RECURSIVE Remove(_, _)
Remove(text, old) ==
    IF Len(text) < Len(old) THEN text
    ELSE IF SubSeq(text, 1, Len(old)) = old
    THEN Remove(SubSeq(text, Len(old) + 1, Len(text)), old)
    ELSE <<Head(text)>> \o Remove(Tail(text), old)

\* _matches_pattern
matches_pattern(path, pattern) ==
    fnmatch(path, <<42>> \o Remove(Remove(pattern, <<42, 42, 47>>), <<42, 42>>) \o <<42>>)

\* root.rglob(f'*{ext}') with the check of the exclude patterns: the files
\* of one extension, in ascending order
CollectExt(d, ext, exclude_patterns) ==
    SortedPaths({FullPath(p) : p \in
        {q \in DiskPaths :
            /\ d.exists
            /\ d.files[q].present
            /\ fnmatch(BaseName(q), <<42>> \o ext)
            /\ ~\E i \in 1..Len(exclude_patterns) :
                   matches_pattern(FullPath(q), exclude_patterns[i])}})

\* sorted(files) of a list with repetitions
RECURSIVE InsertPath(_, _)
InsertPath(sorted, x) ==
    IF sorted = <<>> THEN <<x>>
    ELSE IF StrLess(x, Head(sorted)) THEN <<x>> \o sorted
    ELSE <<Head(sorted)>> \o InsertPath(Tail(sorted), x)

RECURSIVE SortList(_)
SortList(files) ==
    IF files = <<>> THEN <<>>
    ELSE InsertPath(SortList(SubSeq(files, 1, Len(files) - 1)), files[Len(files)])

\* _collect_files
RECURSIVE CollectAll(_, _, _)
CollectAll(d, extensions, exclude_patterns) ==
    IF extensions = <<>> THEN <<>>
    ELSE CollectExt(d, Head(extensions), exclude_patterns)
         \o CollectAll(d, Tail(extensions), exclude_patterns)

collect_disk_files(d, extensions, exclude_patterns) ==
    SortList(CollectAll(d, extensions, exclude_patterns))

\* not code.strip()
IsBlank(text) == \A i \in 1..Len(text) : text[i] \in SpaceChars

\* the file that parse_file and chunk_code are given
ParsedFile(d, file_path) ==
    LET c == d.files[relpath(file_path)].content
    IN  [code |-> c.code, ext |-> suffix(file_path), ok |-> c.ok,
         body |-> c.body, sites |-> c.sites]

DefinitionNames(definitions) ==
    [i \in 1..Len(definitions) |-> definitions[i].name]

\* the body of the loop of index_codebase for one collected file
IndexDiskFile(P, d, ix, file_path, max_file_size) ==
    LET f == d.files[relpath(file_path)]
        pr == parse_file(P, ParsedFile(d, file_path))
    IN  IF ~f.readable THEN ix \* os.path.getsize or open raises: continue
        ELSE IF Len(f.content.code) > max_file_size THEN ix
        ELSE IF IsBlank(f.content.code) THEN ix
        ELSE [repo_map |->
                  DictSet(ix.repo_map,
                          [path |-> relpath(file_path),
                           definitions |-> pr.definitions,
                           references |-> pr.references,
                           language |-> pr.language,
                           file_path |-> file_path,
                           chunks |-> chunk_code(P, ParsedFile(d, file_path))]),
              symbol_to_file |->
                  AddSymbols(ix.symbol_to_file, relpath(file_path),
                             DefinitionNames(pr.definitions))]

RECURSIVE IndexDiskFiles(_, _, _, _, _)
IndexDiskFiles(P, d, ix, todo, max_file_size) ==
    IF todo = <<>> THEN ix
    ELSE IndexDiskFiles(P, d, IndexDiskFile(P, d, ix, Head(todo), max_file_size),
                        Tail(todo), max_file_size)

\* index_codebase(root_path, extensions, exclude_patterns, max_file_size)
index_disk(P, d, extensions, exclude_patterns, max_file_size) ==
    IndexDiskFiles(P, d, [repo_map |-> <<>>, symbol_to_file |-> <<>>],
                   collect_disk_files(d, extensions, exclude_patterns),
                   max_file_size)

\* a CodeParser, a RepositoryIndexer and a directory
IndexInit ==
    /\ phase = "start"
    /\ fs = <<>>
    /\ ix_repo_map = <<>>
    /\ ix_symbol_to_file = <<>>
    /\ repo_map = <<>>
    /\ symbol_to_file = <<>>
    /\ graph = EmptyGraph
    /\ depth_limit = 0
    /\ visited = {}
    /\ sequence = <<>>
    /\ stack = <<>>
    /\ ret = NoCall
    /\ code = <<>>
    /\ chunks = <<>>
    /\ parser \in IndexParsers
    /\ tree = NoTree
    /\ parse_result = NoResult
    /\ disk \in Disks
    /\ client = NoClient
    /\ attempt = 0
    /\ responses = <<>>
    /\ waits = <<>>

\* a main that starts the analysis whatever the root is
Main_nocheck ==
    /\ phase = "start"
    /\ phase' = "running"
    /\ ret' = [op |-> "main", status |-> "returned"]
    /\ UNCHANGED <<queryVars, indexerVars, builderVars, traceVars, chunkVars>>

\* main.py: if not os.path.isdir(args.codebase): print(...); sys.exit(1)
Main ==
    /\ phase = "start"
    /\ IF disk.exists
       THEN phase' = "running" /\ ret' = [op |-> "main", status |-> "returned"]
       ELSE phase' = "exited" /\ ret' = [op |-> "main", status |-> "exit_1"]
    /\ UNCHANGED <<queryVars, indexerVars, builderVars, traceVars, chunkVars>>

\* index_codebase, called by run_analysis ("running") or by any other user
\* of RepositoryIndexer ("start")
IndexDisk ==
    /\ phase \in {"start", "running"}
    /\ \E extensions \in ExtensionLists, exclude_patterns \in ExcludeLists,
          max_file_size \in FileSizes :
           LET ix == index_disk(parser, disk, extensions, exclude_patterns,
                                max_file_size)
           IN  /\ ix_repo_map' = ix.repo_map
               /\ ix_symbol_to_file' = ix.symbol_to_file
               /\ ret' = [op |-> "index_codebase", status |-> "returned",
                          extensions |-> extensions,
                          exclude_patterns |-> exclude_patterns,
                          max_file_size |-> max_file_size]
    /\ phase' = IF phase = "running" THEN "analysed" ELSE "indexed"
    /\ UNCHANGED <<queryVars, fs, disk, builderVars, traceVars, chunkVars>>

IndexNext ==
    \/ Main
    \/ IndexDisk

IndexSpec == IndexInit /\ [][IndexNext]_vars

(***************************************************************************)
(* parse_file on files with call sites.                                    *)
(***************************************************************************)
\* the callee expressions f, a.f and a.b.f
Callees == {<<102>>, <<97, 46, 102>>, <<97, 46, 98, 46, 102>>}

\* the type identifiers A and a
TypeIdentifiers == {<<65>>, <<97>>}

\* a call or a type identifier in line 1 or 2
Sites ==
    {[kind |-> "call", text |-> t, line |-> l] : t \in Callees, l \in 1..2}
    \cup {[kind |-> "type", text |-> t, line |-> l] : t \in TypeIdentifiers, l \in 1..2}

\* the two-line files of the three languages with at most max_sites sites
CallFiles(max_sites) ==
    {[code |-> SourceOfLines(2), ext |-> e, ok |-> TRUE, body |-> <<>>,
      sites |-> ss] :
         e \in {ExtPy, ExtJava, ExtJs}, ss \in SeqsUpTo(Sites, max_sites)}

\* a CodeParser, with and without tree-sitter-languages, and a file
ExtractInit ==
    /\ phase = "start"
    /\ fs = <<>>
    /\ ix_repo_map = <<>>
    /\ ix_symbol_to_file = <<>>
    /\ repo_map = <<>>
    /\ symbol_to_file = <<>>
    /\ graph = EmptyGraph
    /\ depth_limit = 0
    /\ visited = {}
    /\ sequence = <<>>
    /\ stack = <<>>
    /\ ret = NoCall
    /\ chunks = <<>>
    /\ tree \in CallFiles(MaxSites)
    /\ parser \in {P \in ParserConfigs :
                       /\ P.max_chunk_lines = 1
                       /\ P.chunk_by = "function_or_class"
                       /\ P.chunk_node_types = {"class_declaration"}
                       /\ P.sub_chunk_types = {"method_declaration"}}
    /\ code = tree.code
    /\ parse_result = NoResult
    /\ disk = NoDisk
    /\ client = NoClient
    /\ attempt = 0
    /\ responses = <<>>
    /\ waits = <<>>

ExtractSpec == ExtractInit /\ [][DeclNext]_vars

(***************************************************************************)
(* parse_file on files with classes and their methods.                     *)
(***************************************************************************)
\* the method names f and g
MethodNameSet == {<<102>>, <<103>>}

\* a Java or JavaScript class at line s: class_declaration, class_body and
\* one method node (method_type) per name in the lines that follow
TsClass(method_type, name, s, ms) ==
    [type |-> "class_declaration", name |-> name, start_line |-> s,
     end_line |-> s + Len(ms),
     children |->
        <<[type |-> "class_body", name |-> <<>>, start_line |-> s,
           end_line |-> s + Len(ms),
           children |->
              [i \in 1..Len(ms) |->
                  [type |-> method_type, name |-> ms[i], start_line |-> s + i,
                   end_line |-> s + i, children |-> <<>>]]]>>]

\* a Python class at line s with one FunctionDef per name
PyClass(name, s, ms) ==
    [type |-> "ClassDef", name |-> name, start_line |-> s,
     end_line |-> s + Len(ms),
     children |->
        [i \in 1..Len(ms) |->
            [type |-> "FunctionDef", name |-> ms[i], start_line |-> s + i,
             end_line |-> s + i, children |-> <<>>]]]

\* a class A with its methods, followed by nothing, by a class B with its
\* methods or, in Python, by a function
ClassBodies(ext, max_methods) ==
    LET Class(name, s, ms) ==
            IF ext = ExtPy THEN PyClass(name, s, ms)
            ELSE TsClass(IF ext = ExtJava THEN "method_declaration"
                         ELSE "method_definition", name, s, ms)
        MethodLists == SeqsUpTo(MethodNameSet, max_methods)
    IN  UNION {{<<Class(<<65>>, 1, ms)>>}
               \cup {<<Class(<<65>>, 1, ms), Class(<<66>>, Len(ms) + 2, ms2)>> :
                         ms2 \in MethodLists}
               \cup (IF ext = ExtPy
                     THEN {<<Class(<<65>>, 1, ms),
                             [type |-> "FunctionDef", name |-> n,
                              start_line |-> Len(ms) + 2, end_line |-> Len(ms) + 2,
                              children |-> <<>>]>> : n \in MethodNameSet}
                     ELSE {}) :
                  ms \in MethodLists}

ClassFiles(max_methods) ==
    UNION {{[code |-> SourceOfLines(b[Len(b)].end_line), ext |-> e, ok |-> TRUE,
             body |-> b, sites |-> <<>>] : b \in ClassBodies(e, max_methods)} :
              e \in {ExtPy, ExtJava, ExtJs}}

\* a CodeParser, with and without tree-sitter-languages, and a file
MethodInit ==
    /\ phase = "start"
    /\ fs = <<>>
    /\ ix_repo_map = <<>>
    /\ ix_symbol_to_file = <<>>
    /\ repo_map = <<>>
    /\ symbol_to_file = <<>>
    /\ graph = EmptyGraph
    /\ depth_limit = 0
    /\ visited = {}
    /\ sequence = <<>>
    /\ stack = <<>>
    /\ ret = NoCall
    /\ chunks = <<>>
    /\ tree \in ClassFiles(MaxMethods)
    /\ parser \in {P \in ParserConfigs :
                       /\ P.max_chunk_lines = 1
                       /\ P.chunk_by = "function_or_class"
                       /\ P.chunk_node_types = {"class_declaration"}
                       /\ P.sub_chunk_types = {"method_declaration"}}
    /\ code = tree.code
    /\ parse_result = NoResult
    /\ disk = NoDisk
    /\ client = NoClient
    /\ attempt = 0
    /\ responses = <<>>
    /\ waits = <<>>

MethodSpec == MethodInit /\ [][DeclNext]_vars

(***************************************************************************)
(* RepositoryIndexer.get_repository_summary.  The summary is kept as its   *)
(* lines: the heading of a file ("file"), "Classes:" ("classes"), a class  *)
(* with the method names shown ("class"), "Functions/Methods:"             *)
(* ("functions") and a function or method ("function").                    *)
(***************************************************************************)
\* the definition lists of a file: none, functions, a class with two
\* methods, the same with the methods as definitions of their own, and a
\* class without a methods list next to a function
SummaryDefinitions ==
    LET d(t, n, ms) == [type |-> t, name |-> n, line |-> 1, methods |-> ms]
    IN  {<<>>,
         <<d("function", <<102>>, <<>>)>>,
         <<d("function", <<102>>, <<>>), d("function", <<103>>, <<>>)>>,
         <<d("class", <<65>>, <<<<102>>, <<103>>>>)>>,
         <<d("class", <<65>>, <<<<102>>, <<103>>>>), d("method", <<102>>, <<>>),
           d("method", <<103>>, <<>>)>>,
         <<d("class", <<65>>, <<>>), d("function", <<102>>, <<>>)>>}

SummaryMaps ==
    UNION {{[i \in 1..Len(ks) |->
                [path |-> ks[i], definitions |-> ds[i], references |-> <<>>]] :
                ds \in [1..Len(ks) -> SummaryDefinitions]} : ks \in KeyLists}

\* sorted(..., key=lambda x: len(x[1]['definitions']), reverse=True): files
\* with as many definitions keep their order
RECURSIVE InsertByDefinitions(_, _)
InsertByDefinitions(sorted, x) ==
    IF sorted = <<>> THEN <<x>>
    ELSE IF Len(x.definitions) > Len(Head(sorted).definitions) THEN <<x>> \o sorted
    ELSE <<Head(sorted)>> \o InsertByDefinitions(Tail(sorted), x)

RECURSIVE SortByDefinitions(_)
SortByDefinitions(rm) ==
    IF rm = <<>> THEN <<>>
    ELSE InsertByDefinitions(SortByDefinitions(SubSeq(rm, 1, Len(rm) - 1)),
                             rm[Len(rm)])

\* a summary of every file
sorted_files_all(rm, repo_summary_max_files) == SortByDefinitions(rm)

\* sorted_files = sorted(...)[:self.repo_summary_max_files]
sorted_files(rm, repo_summary_max_files) ==
    Prefix(SortByDefinitions(rm), repo_summary_max_files)

SummaryLine(kind, name, methods) == [kind |-> kind, name |-> name, methods |-> methods]

\* the lines of one file of the summary
FileSummary(entry, max_methods_shown, max_functions_shown) ==
    LET classes == SelectSeq(entry.definitions, LAMBDA d : d.type = "class")
        functions == SelectSeq(entry.definitions,
                               LAMBDA d : d.type \in {"function", "method"})
        shown == Prefix(functions, max_functions_shown)
    IN  <<SummaryLine("file", entry.path, <<>>)>>
        \o (IF classes = <<>> THEN <<>>
            ELSE <<SummaryLine("classes", <<>>, <<>>)>>
                 \o [i \in 1..Len(classes) |->
                        SummaryLine("class", classes[i].name,
                                    Prefix(classes[i].methods, max_methods_shown))])
        \o (IF functions = <<>> THEN <<>>
            ELSE <<SummaryLine("functions", <<>>, <<>>)>>
                 \o [i \in 1..Len(shown) |->
                        SummaryLine("function", shown[i].name, <<>>)])

RECURSIVE FileSummaries(_, _, _)
FileSummaries(files, max_methods_shown, max_functions_shown) ==
    IF files = <<>> THEN <<>>
    ELSE FileSummary(Head(files), max_methods_shown, max_functions_shown)
         \o FileSummaries(Tail(files), max_methods_shown, max_functions_shown)

get_repository_summary(rm, repo_summary_max_files, max_methods_shown, max_functions_shown) ==
    FileSummaries(sorted_files(rm, repo_summary_max_files), max_methods_shown,
                  max_functions_shown)

\* a RepositoryIndexer after a pass
SummaryInit ==
    /\ phase = "indexed"
    /\ fs = <<>>
    /\ ix_repo_map \in SummaryMaps
    /\ ix_symbol_to_file = <<>>
    /\ repo_map = <<>>
    /\ symbol_to_file = <<>>
    /\ graph = EmptyGraph
    /\ depth_limit = 0
    /\ visited = {}
    /\ sequence = <<>>
    /\ stack = <<>>
    /\ ret = NoCall
    /\ code = <<>>
    /\ chunks = <<>>
    /\ parser = NoParser
    /\ tree = NoTree
    /\ parse_result = NoResult
    /\ disk = NoDisk
    /\ client = NoClient
    /\ attempt = 0
    /\ responses = <<>>
    /\ waits = <<>>

\* main.py: repo_summary = indexer.get_repository_summary(), with the limits
\* that RepositoryIndexer was constructed with
GetRepositorySummary ==
    /\ phase = "indexed"
    /\ ret = NoCall
    /\ \E n \in 0..MaxShown, mm \in 0..MaxShown, mf \in 0..MaxShown :
           ret' = [op |-> "get_repository_summary", status |-> "returned",
                   value |-> get_repository_summary(ix_repo_map, n, mm, mf),
                   repo_summary_max_files |-> n, max_methods_shown |-> mm,
                   max_functions_shown |-> mf]
    /\ UNCHANGED <<queryVars, phase, indexerVars, builderVars, traceVars, chunkVars>>

SummaryNext ==
    \/ GetRepositorySummary
    \/ Return

SummarySpec == SummaryInit /\ [][SummaryNext]_vars

(***************************************************************************)
(* A DependencyGraphBuilder whose repo_map or symbol_to_file is changed by  *)
(* its owner between two calls of build_graph.                             *)
(***************************************************************************)
\* the symbol tables with at most one file per name
SmallSymbolTables == [Names \ {<<>>} -> SeqsUpTo(Paths, 1)]

RebuildInit ==
    /\ Init
    /\ symbol_to_file \in SmallSymbolTables

\* builder.repo_map or builder.symbol_to_file after the graph was built: the
\* dictionaries given to __init__ are held by reference and are open to the
\* caller
ChangeSnapshot ==
    /\ Idle
    /\ phase = "built"
    /\ \/ repo_map' \in RepoMaps \ {repo_map} /\ UNCHANGED symbol_to_file
       \/ symbol_to_file' \in SmallSymbolTables \ {symbol_to_file}
          /\ UNCHANGED repo_map
    /\ phase' = "changed"
    /\ UNCHANGED <<queryVars, indexerVars, graph, traceVars, ret, chunkVars>>

RebuildNext ==
    \/ BuildGraph
    \/ ChangeSnapshot
    \/ Return

RebuildSpec == RebuildInit /\ [][RebuildNext]_vars

(***************************************************************************)
(* trace_call_sequence on the graphs of four files.                        *)
(***************************************************************************)
\* the files of Paths and the file "b"
DeepPaths == Paths \cup {<<98>>}

\* the reference lists of a file: the names of at most two files in
\* ascending order
DeepRefLists == {SortedPaths(S) : S \in {T \in SUBSET DeepPaths : Cardinality(T) <= 2}}

\* every file defines one symbol, named like the file, and refers to the
\* symbols of other files, at most MaxDeepRefs references in all
DeepInit ==
    /\ phase = "constructed"
    /\ fs = <<>>
    /\ ix_repo_map = <<>>
    /\ ix_symbol_to_file = <<>>
    /\ \E r1, r2, r3, r4 \in DeepRefLists :
           LET keys == SortedPaths(DeepPaths)
               rm == <<[path |-> keys[1], references |-> r1],
                       [path |-> keys[2], references |-> r2],
                       [path |-> keys[3], references |-> r3],
                       [path |-> keys[4], references |-> r4]>>
           IN  /\ \A i \in 1..4 : rm[i].path \notin Range(rm[i].references)
               /\ Len(r1) + Len(r2) + Len(r3) + Len(r4) <= MaxDeepRefs
               /\ repo_map = rm
    /\ symbol_to_file = [n \in DeepPaths |-> <<n>>]
    /\ graph = EmptyGraph
    /\ depth_limit = 0
    /\ visited = {}
    /\ sequence = <<>>
    /\ stack = <<>>
    /\ ret = NoCall
    /\ code = <<>>
    /\ chunks = <<>>
    /\ parser = NoParser
    /\ tree = NoTree
    /\ parse_result = NoResult
    /\ disk = NoDisk
    /\ client = NoClient
    /\ attempt = 0
    /\ responses = <<>>
    /\ waits = <<>>

DeepTraceSpec == DeepInit /\ [][TraceNext]_vars

(***************************************************************************)
(* LocalLLMClient.query: the retry loop around chat.completions.create.    *)
(***************************************************************************)
\* what a request can end with: a response with text, a response whose
\* message.content is None, or an exception of the openai library or of
\* anything else
Outcomes ==
    {"text", "no_content", "APIConnectionError", "APITimeoutError", "APIError",
     "Exception"}

\* the classes the exception is an instance of: in the openai library
\* APITimeoutError derives from APIConnectionError, which derives from
\* APIError; .strip() on a content of None raises AttributeError
ClassesOf(outcome) ==
    CASE outcome = "APITimeoutError" ->
             {"APITimeoutError", "APIConnectionError", "APIError", "Exception"}
      [] outcome = "APIConnectionError" -> {"APIConnectionError", "APIError", "Exception"}
      [] outcome = "APIError" -> {"APIError", "Exception"}
      [] OTHER -> {"Exception"}

\* the except clauses of query in their order, and what each raises
ExceptClauses ==
    <<[class |-> "APIConnectionError", retry |-> TRUE, raises |-> "ConnectionError"],
      [class |-> "APITimeoutError", retry |-> TRUE, raises |-> "TimeoutError"],
      [class |-> "APIError", retry |-> FALSE, raises |-> "ValueError"],
      [class |-> "Exception", retry |-> TRUE, raises |-> "RuntimeError"]>>

\* the first except clause that matches the exception
Handler(outcome) ==
    ExceptClauses[CHOOSE k \in 1..Len(ExceptClauses) :
                      /\ ExceptClauses[k].class \in ClassesOf(outcome)
                      /\ \A j \in 1..(k - 1) :
                             ExceptClauses[j].class \notin ClassesOf(outcome)]

\* Python's ** on non-negative integers
RECURSIVE Pow(_, _)
Pow(b, e) == IF e = 0 THEN 1 ELSE b * Pow(b, e - 1)

LLMClients ==
    [max_retries : 0..MaxRetries, retry_backoff_base : 0..MaxBackoffBase]

\* a LocalLLMClient that main.py built from the configuration
QueryInit ==
    /\ phase = "start"
    /\ fs = <<>>
    /\ ix_repo_map = <<>>
    /\ ix_symbol_to_file = <<>>
    /\ repo_map = <<>>
    /\ symbol_to_file = <<>>
    /\ graph = EmptyGraph
    /\ depth_limit = 0
    /\ visited = {}
    /\ sequence = <<>>
    /\ stack = <<>>
    /\ ret = NoCall
    /\ code = <<>>
    /\ chunks = <<>>
    /\ parser = NoParser
    /\ tree = NoTree
    /\ parse_result = NoResult
    /\ disk = NoDisk
    /\ client \in LLMClients
    /\ attempt = 0
    /\ responses = <<>>
    /\ waits = <<>>

\* query(prompt, system_message) up to the for statement
Query ==
    /\ phase = "start"
    /\ phase' = "querying"
    /\ ret' = [op |-> "query", status |-> "running", value |-> "none"]
    /\ attempt' = 0
    /\ responses' = <<>>
    /\ waits' = <<>>
    /\ UNCHANGED <<indexerVars, builderVars, traceVars, chunkVars, client>>

\* one round of for attempt in range(self.max_retries): the request, and
\* the return or the except clause that follows it
QueryAttempt ==
    /\ phase = "querying"
    /\ attempt < client.max_retries
    /\ \E outcome \in Outcomes :
        /\ responses' = Append(responses, outcome)
        /\ IF outcome = "text"
           THEN /\ ret' = [op |-> "query", status |-> "returned", value |-> "text"]
                /\ phase' = "queried"
                /\ UNCHANGED <<attempt, waits>>
           ELSE IF Handler(outcome).retry /\ attempt < client.max_retries - 1
           THEN \* time.sleep(self.retry_backoff_base ** attempt)
                /\ waits' = Append(waits, Pow(client.retry_backoff_base, attempt))
                /\ attempt' = attempt + 1
                /\ UNCHANGED <<phase, ret>>
           ELSE /\ ret' = [op |-> "query", status |-> "raised",
                           value |-> Handler(outcome).raises]
                /\ phase' = "queried"
                /\ UNCHANGED <<attempt, waits>>
    /\ UNCHANGED <<indexerVars, builderVars, traceVars, chunkVars, client>>

\* range(self.max_retries) is exhausted: the function ends without a return
\* statement and the call returns None
QueryEnd ==
    /\ phase = "querying"
    /\ attempt >= client.max_retries
    /\ ret' = [op |-> "query", status |-> "returned", value |-> "None"]
    /\ phase' = "queried"
    /\ UNCHANGED <<indexerVars, builderVars, traceVars, chunkVars, queryVars>>

QueryNext ==
    \/ Query
    \/ QueryAttempt
    \/ QueryEnd

QuerySpec == QueryInit /\ [][QueryNext]_vars

(***************************************************************************)
(* Properties.                                                             *)
(***************************************************************************)
\* the references of file A in the RepoMap of the builder
ReferencesOf(A) ==
    UNION {Range(repo_map[i].references) :
               i \in {k \in 1..Len(repo_map) : repo_map[k].path = A}}

\* some reference of A has a non-empty name that the SymbolTable maps to B
Resolves(A, B) ==
    \E n \in ReferencesOf(A) : n # <<>> /\ B \in Range(Get(symbol_to_file, n))

\* the files within d outbound edges of start
RECURSIVE ReachWithin(_, _, _)
ReachWithin(G, start, d) ==
    IF d = 0 THEN {start}
    ELSE LET R == ReachWithin(G, start, d - 1)
         IN  R \cup UNION {Range(G.succ[n]) : n \in R \cap Range(G.nodes)}

TraceReturned == ret.op = "trace_call_sequence" /\ ret.status = "returned"

\* C1: after build_graph the edge A -> B is in the graph (B a successor of
\* A, A a predecessor of B) if and only if A # B and some reference of
\* RepoMap[A] has a non-empty name n with B in SymbolTable[n].
C1_EdgeIffResolves ==
    phase = "built" =>
        \A A, B \in Paths :
            /\ HasEdge(graph, A, B) <=> (A # B /\ Resolves(A, B))
            /\ HasEdge(graph, A, B) <=> (HasNode(graph, B) /\ A \in Range(graph.pred[B]))

\* a built graph with an edge, whose target has exactly one dependent
C1_Witness ==
    /\ phase = "built"
    /\ \E A, B \in Paths : HasEdge(graph, A, B) /\ graph.pred[B] = <<A>>
                           /\ graph.succ[A] = <<B>>

\* C2: no file of the graph is among its own dependencies or dependents,
\* also when it references a symbol that it defines itself.
C2_NoSelfLoops ==
    /\ \A f \in Range(graph.nodes) :
           f \notin Range(graph.succ[f]) /\ f \notin Range(graph.pred[f])
    /\ (ret.op \in {"get_dependencies", "get_dependents"} /\ ret.status = "returned")
           => ret.arg \notin Range(ret.value)

\* the dependencies of a file that references a symbol it defines itself
C2_Witness ==
    /\ ret.op = "get_dependencies"
    /\ ret.status = "returned"
    /\ Resolves(ret.arg, ret.arg)
    /\ ret.value # <<>>

\* the keys of the RepoMap the indexer built
RepoMapKeys == {ix_repo_map[i].path : i \in 1..Len(ix_repo_map)}

\* C3: after index_codebase and build_graph the nodes of the graph are
\* exactly the keys of RepoMap, and every dependency and every dependent
\* of a file is a key of RepoMap.
C3_ClosedGraph ==
    /\ phase = "built" =>
           /\ Range(graph.nodes) = RepoMapKeys
           /\ \A f \in Range(graph.nodes) :
                  /\ Range(graph.succ[f]) \subseteq RepoMapKeys
                  /\ Range(graph.pred[f]) \subseteq RepoMapKeys
    /\ (ret.op \in {"get_dependencies", "get_dependents"} /\ ret.status = "returned")
           => Range(ret.value) \subseteq RepoMapKeys

\* the dependents of a file of a graph built over an index pass that left
\* out a file whose parsing raised
C3_Witness ==
    /\ phase = "built"
    /\ \E p \in Paths : fs[p].kind = "raises"
    /\ ret.op = "get_dependents" /\ ret.status = "returned" /\ ret.value # <<>>

\* C4: dependencies(file) and dependents(file) return an empty collection
\* and never raise, for a node without edges and for a path that is not a
\* node of the graph.
C4_QueryMiss ==
    (/\ ret.op \in {"get_dependencies", "get_dependents"}
     /\ \/ ~HasNode(graph, ret.arg)
        \/ (ret.op = "get_dependencies" /\ graph.succ[ret.arg] = <<>>)
        \/ (ret.op = "get_dependents" /\ graph.pred[ret.arg] = <<>>))
        => (ret.status = "returned" /\ ret.value = <<>>)

\* C5: the sequence trace_call_sequence(f, d) returns contains no file
\* twice and its first element is f, on cyclic graphs too.
C5_TraversalSafety ==
    TraceReturned =>
        /\ NoDup(ret.value)
        /\ Len(ret.value) >= 1
        /\ ret.value[1] = ret.arg

\* a trace that went round a cycle: a file visited after the start has an
\* edge back to the start
C5_Witness ==
    /\ TraceReturned
    /\ \E i \in 2..Len(ret.value) : HasEdge(graph, ret.value[i], ret.arg)

\* C6: every file of trace_call_sequence(start, d) is within d outbound
\* edges of start, and trace(x, 0) = [x].
C6_DepthBound ==
    TraceReturned =>
        /\ Range(ret.value) \subseteq ReachWithin(graph, ret.arg, ret.max_depth)
        /\ (ret.max_depth = 0 => ret.value = <<ret.arg>>)

\* a trace cut by the depth limit: a file of the trace has a successor
\* that the trace left out
C6_Witness ==
    /\ TraceReturned
    /\ \E i \in 1..Len(ret.value) :
           \E n \in Range(graph.succ[ret.value[i]]) : n \notin Range(ret.value)

\* C7: trace_call_sequence terminates on every graph, cyclic ones included:
\* no node is expanded twice, the recursion is never deeper than the depth
\* limit, and every running trace returns.
C7_TraceTerminates ==
    /\ [](/\ NoDup(sequence)
          /\ Len(stack) <= depth_limit + 1
          /\ \A k \in 1..Len(stack) : stack[k].depth = k - 1)
    /\ (ret.status = "running") ~> TraceReturned

\* a running trace whose innermost call has just met the start file again
\* among its successors: the trace is on a cycle
C7_Witness ==
    /\ Len(stack) >= 2
    /\ Top.i > 1
    /\ TopSuccessors[Top.i - 1] = stack[1].node

\* C8: get_central_files(n) returns at most n files, sorted by in-degree
\* descending, files of equal in-degree in the lexical order of the paths.
C8_DeterministicRanking ==
    ret.op = "get_central_files" =>
        /\ Len(ret.value) <= ret.top_n
        /\ \A i, j \in 1..Len(ret.value) :
               i < j =>
                   \/ in_degree(graph, ret.value[i]) > in_degree(graph, ret.value[j])
                   \/ /\ in_degree(graph, ret.value[i]) = in_degree(graph, ret.value[j])
                      /\ StrLess(ret.value[i], ret.value[j])

\* C9: find_entry_points returns exactly the nodes with in-degree >
\* min_dependents and out-degree < max_dependencies, or whose path contains
\* a configured keyword, both compared without regard to letter case.
C9_EntryPoints ==
    ret.op = "find_entry_points" =>
        Range(ret.value) =
            {f \in Range(graph.nodes) :
                \/ /\ in_degree(graph, f) > ret.min_dependents
                   /\ out_degree(graph, f) < ret.max_dependencies
                \/ \E i \in 1..Len(ret.keywords) :
                       Contains(Lower(f), Lower(ret.keywords[i]))}

\* the number of lines of a text: one more than its line feeds
LineCount(text) == 1 + Cardinality({i \in 1..Len(text) : text[i] = 10})

\* C10: for any source and any positive maxChunkLines the size chunks are
\* consecutive line ranges that start at line 1, end at the last line and
\* cover every line exactly once.
C10_Partition ==
    ret.op = "chunk_by_size" =>
        /\ Len(chunks) >= 1
        /\ chunks[1].start_line = 1
        /\ chunks[Len(chunks)].end_line = LineCount(code)
        /\ \A k \in 1..Len(chunks) : chunks[k].start_line <= chunks[k].end_line
        /\ \A k \in 1..(Len(chunks) - 1) :
               chunks[k + 1].start_line = chunks[k].end_line + 1
        /\ \A line \in 1..LineCount(code) :
               Cardinality({k \in 1..Len(chunks) :
                   chunks[k].start_line <= line /\ line <= chunks[k].end_line}) = 1

\* a source cut into several windows, the last one shorter than the others
C10_Witness ==
    /\ ret.op = "chunk_by_size"
    /\ Len(chunks) >= 2
    /\ chunks[Len(chunks)].end_line - chunks[Len(chunks)].start_line + 1 < ret.max_lines

\* C11: the chunk list chunk_code returns, on each of its paths, is ordered
\* by start_line and no two of its chunks have overlapping line ranges.
C11_OrderedDisjoint ==
    ret.op = "chunk_code" =>
        \A i, j \in 1..Len(chunks) :
            i < j => /\ chunks[i].start_line <= chunks[j].start_line
                     /\ chunks[i].end_line < chunks[j].start_line

\* the chunks come from declarations, not from size windows
DeclarationPath == phase = "chunked" /\ chunks[1].type # "default_chunk_type"

\* the chunks whose line range holds the line
ChunksAt(line) ==
    {k \in 1..Len(chunks) : chunks[k].start_line <= line /\ line <= chunks[k].end_line}

\* C12: when a file is chunked by its declarations, also when an oversized
\* class is replaced by its methods, the line of every definition
\* parse_file extracted lies in the line range of exactly one chunk.
C12_Containment ==
    DeclarationPath =>
        \A i \in 1..Len(parse_result.definitions) :
            Cardinality(ChunksAt(parse_result.definitions[i].line)) = 1

\* the file is chunked from Python's ast, or from a tree-sitter tree
OnPythonPath ==
    /\ parser.chunk_by = "function_or_class"
    /\ get_language(parser, tree) = "python"
    /\ "python" \in DOMAIN parser.parsers
    /\ tree.ok

OnTreeSitterPath ==
    /\ parser.chunk_by = "function_or_class"
    /\ get_language(parser, tree) \in DOMAIN parser.parsers
    /\ parser.parsers[get_language(parser, tree)] = "Parser"

\* the top-level declarations of the file
TopDeclarations ==
    IF OnPythonPath
    THEN SelectSeq(tree.body, LAMBDA n : n.type = "ClassDef" \/ IsFunctionDef(n))
    ELSE SelectSeq(tree.body, LAMBDA n : n.type \in parser.chunk_node_types)

\* the declarations of the given types nested in the nodes, the outermost
\* ones only, in source order
RECURSIVE NestedEligible(_, _)
NestedEligible(types, nodes) ==
    IF nodes = <<>> THEN <<>>
    ELSE (IF Head(nodes).type \in types THEN <<Head(nodes)>>
          ELSE NestedEligible(types, Head(nodes).children))
         \o NestedEligible(types, Tail(nodes))

\* the sub-chunk-eligible declarations inside a top-level declaration: the
\* configured sub-chunk types, or the methods of a Python class
SubDeclarations(node) ==
    IF OnPythonPath
    THEN IF node.type = "ClassDef"
         THEN NestedEligible({"FunctionDef", "AsyncFunctionDef"}, node.children)
         ELSE <<>>
    ELSE NestedEligible(parser.sub_chunk_types, node.children)

Oversized(node) == node.end_line - node.start_line > parser.max_chunk_lines

\* the declarations that stand for a top-level declaration in the chunk list
StandIns(node) ==
    IF Oversized(node) /\ SubDeclarations(node) # <<>>
    THEN SubDeclarations(node)
    ELSE <<node>>

RECURSIVE AllStandIns(_)
AllStandIns(nodes) ==
    IF nodes = <<>> THEN <<>> ELSE StandIns(Head(nodes)) \o AllStandIns(Tail(nodes))

IsClassType(type) == type \in {"class", "ClassDef", "class_declaration"}

\* how often the declaration (class or not, first line, last line) occurs
Occurrences(items, key) ==
    Cardinality({i \in 1..Len(items) :
        <<IsClassType(items[i].type), items[i].start_line, items[i].end_line>> = key})

\* C13: a top-level declaration whose line span exceeds maxChunkLines is
\* replaced in the chunk list by the sub-chunk-eligible declarations nested
\* in it, and is emitted whole only when it contains none; every other
\* top-level declaration is one chunk.
C13_OversizedReplaced ==
    (DeclarationPath /\ TopDeclarations # <<>>) =>
        \A c \in BOOLEAN, s, e \in 1..MaxTreeLines :
            Occurrences(chunks, <<c, s, e>>)
                = Occurrences(AllStandIns(TopDeclarations), <<c, s, e>>)

\* the files of the pass that got an entry, in the order they are processed
RetainedFiles == SortedPaths({p \in Paths : fs[p].kind = "source"})

\* how many definitions of the file have the name
DefinedTimes(p, n) ==
    Cardinality({i \in 1..Len(fs[p].definitions) : fs[p].definitions[i] = n})

\* the path of every file of the list, once for each of its definitions
\* named n
RECURSIVE PathsDefining(_, _)
PathsDefining(n, files) ==
    IF files = <<>> THEN <<>>
    ELSE [i \in 1..DefinedTimes(Head(files), n) |-> Head(files)]
         \o PathsDefining(n, Tail(files))

Without(p) ==
    [fs EXCEPT ![p] = [kind |-> "absent", definitions |-> <<>>, references |-> <<>>]]

\* C16: when reading, parsing or chunking a file raises, index_codebase
\* returns normally, the file has no entry in RepoMap, and RepoMap and
\* SymbolTable are what the pass builds when the file is not there.
C16_FailureIsolation ==
    phase # "start" =>
        /\ ret.op = "index_codebase" => ret.status = "returned"
        /\ \A p \in Paths :
               fs[p].kind = "raises" =>
                   /\ p \notin RepoMapKeys
                   /\ ix_repo_map = index_codebase(Without(p)).repo_map
                   /\ ix_symbol_to_file = index_codebase(Without(p)).symbol_to_file

\* a pass in which a file raises and a file processed after it is indexed
C16_Witness ==
    /\ phase = "indexed"
    /\ \E p, q \in Paths :
           /\ fs[p].kind = "raises"
           /\ StrLess(p, q)
           /\ q \in RepoMapKeys
           /\ q \in Range(Get(ix_symbol_to_file, <<102>>))

IndexReturned == ret.op = "index_codebase" /\ ret.status = "returned"

\* the components of a path or of a glob
RECURSIVE Components(_)
Components(path) ==
    IF 47 \notin Range(path) THEN <<path>>
    ELSE LET i == CHOOSE k \in 1..Len(path) :
                      path[k] = 47 /\ \A j \in 1..(k - 1) : path[j] # 47
         IN  <<SubSeq(path, 1, i - 1)>> \o Components(SubSeq(path, i + 1, Len(path)))

\* a glob against a path, component by component: "**" stands for any
\* number of directories, "*" and "?" stay within one component
RECURSIVE GlobComponents(_, _)
GlobComponents(path, glob) ==
    IF glob = <<>> THEN path = <<>>
    ELSE IF Head(glob) = <<42, 42>>
    THEN GlobComponents(path, Tail(glob))
         \/ (path # <<>> /\ GlobComponents(Tail(path), glob))
    ELSE /\ path # <<>>
         /\ fnmatch(Head(path), Head(glob))
         /\ GlobComponents(Tail(path), Tail(glob))

\* the path of a file matches an exclude glob; a glob without "/" is matched
\* against the name of the file
MatchesGlob(rel_path, glob) ==
    \/ GlobComponents(Components(rel_path), Components(glob))
    \/ 47 \notin Range(glob) /\ fnmatch(BaseName(rel_path), glob)

EndsWith(s, t) == Len(t) <= Len(s) /\ SubSeq(s, Len(s) - Len(t) + 1, Len(s)) = t

\* C17: a file has an entry in RepoMap after index_codebase only if its path
\* ends with one of the extensions, matches none of the exclude globs, its
\* size does not exceed max_file_size and its content is not blank.
C17_EntryOnlyIf ==
    IndexReturned =>
        \A i \in 1..Len(ix_repo_map) :
            LET p == ix_repo_map[i].path
            IN  /\ p \in DiskPaths
                /\ disk.files[p].present
                /\ \E k \in 1..Len(ret.extensions) : EndsWith(p, ret.extensions[k])
                /\ \A k \in 1..Len(ret.exclude_patterns) :
                       ~MatchesGlob(p, ret.exclude_patterns[k])
                /\ Len(disk.files[p].content.code) <= ret.max_file_size
                /\ ~IsBlank(disk.files[p].content.code)

\* the files that the pass collects, reads and keeps, and whose suffix
\* language_map does not hold
Unsupported ==
    {p \in DiskPaths :
        /\ FullPath(p) \in Range(collect_disk_files(disk, ret.extensions,
                                                    ret.exclude_patterns))
        /\ disk.files[p].readable
        /\ Len(disk.files[p].content.code) <= ret.max_file_size
        /\ ~IsBlank(disk.files[p].content.code)
        /\ suffix(p) \notin DOMAIN parser.language_map}

EntriesOf(p) == {i \in 1..Len(ix_repo_map) : ix_repo_map[i].path = p}

\* the chunks are windows of at most max_chunk_lines lines that follow one
\* another from line 1 to the last line of the text
SizeWindowsCover(cs, text) ==
    /\ Len(cs) >= 1
    /\ cs[1].start_line = 1
    /\ cs[Len(cs)].end_line = LineCount(text)
    /\ \A k \in 1..Len(cs) :
           /\ cs[k].type = "default_chunk_type"
           /\ cs[k].start_line <= cs[k].end_line
           /\ cs[k].end_line - cs[k].start_line < parser.max_chunk_lines
    /\ \A k \in 1..(Len(cs) - 1) : cs[k + 1].start_line = cs[k].end_line + 1

\* what the regular expressions of the fallback find in a text
TextDefinitions(ext, text) ==
    IF ext = ExtPy
    THEN MatchDefinitions(ClassPattern, "class", text)
         \o MatchDefinitions(DefPattern, "function", text)
    ELSE IF ext = ExtJava
    THEN MatchDefinitions(ClassPattern, "class", text)
         \o MatchDefinitions(MethodPattern, "method", text)
    ELSE <<>>

C19_Original ==
    (ret.op = "index_codebase" /\ ~disk.exists) => ret.status = "raised"

\* C19: a root that does not exist is detected by main before the analysis
\* starts: main exits with status 1 exactly when the root is no directory,
\* nothing is indexed then, and the pass that run_analysis starts always has
\* an existing root; index_codebase itself, called on a root that does not
\* exist, returns an empty RepoMap.
C19_PreflightInMain ==
    /\ ret.op = "main" =>
           /\ ret.status = "exit_1" <=> ~disk.exists
           /\ phase = "exited" <=> ~disk.exists
           /\ ix_repo_map = <<>> /\ ix_symbol_to_file = <<>>
    /\ phase = "exited" => ret.op = "main"
    /\ phase = "analysed" => disk.exists
    /\ (IndexReturned /\ ~disk.exists) =>
           ix_repo_map = <<>> /\ ix_symbol_to_file = <<>>

\* main has left with status 1 on a root that does not exist
C19_Witness == phase = "exited" /\ ret.status = "exit_1" /\ ~disk.exists

\* the part of a callee expression after its last dot
LastDotted(text) == SubSeq(text, LastIndexOf(text, 46) + 1, Len(text))

CallSites == SelectSeq(tree.sites, LAMBDA x : x.kind = "call")

CallReferences ==
    SelectSeq(parse_result.references,
              LAMBDA r : r.type \in {"function_call", "method_call"})

\* the language of the file has an extractor: it is in language_map and in
\* the parsers of the CodeParser
HasExtractor ==
    /\ get_language(parser, tree) # ""
    /\ get_language(parser, tree) \in DOMAIN parser.parsers

\* C20: parse_file of a file of a supported language emits, for every call
\* site in turn, one call reference at the line of the call whose name is
\* the last dotted segment of the callee expression.
C20_LastSegment ==
    (ret.op = "parse_file" /\ HasExtractor) =>
        /\ Len(CallReferences) = Len(CallSites)
        /\ \A i \in 1..Len(CallSites) :
               /\ i <= Len(CallReferences)
               /\ CallReferences[i].name = LastDotted(CallSites[i].text)
               /\ CallReferences[i].line = CallSites[i].line

\* the classes of the file, and the method names of a class in source order
ClassNodes ==
    SelectSeq(tree.body, LAMBDA n : n.type \in {"class_declaration", "ClassDef"})

MethodNodesOf(class) ==
    IF class.type = "ClassDef" THEN class.children ELSE class.children[1].children

MethodNamesOf(class) ==
    [i \in 1..Len(MethodNodesOf(class)) |-> MethodNodesOf(class)[i].name]

ClassDefinitions ==
    SelectSeq(parse_result.definitions, LAMBDA d : d.type = "class")

\* the lines of the methods that lie in a class body
MethodLines ==
    UNION {{MethodNodesOf(ClassNodes[i])[k].start_line :
                k \in 1..Len(MethodNodesOf(ClassNodes[i]))} :
              i \in 1..Len(ClassNodes)}

\* C21: the definitions of a file hold one class Definition per class, whose
\* methods list is the names of the methods of its body, and no Definition
\* of their own for the methods of a class body.
C21_MethodsInClass ==
    (ret.op = "parse_file" /\ HasExtractor) =>
        /\ Len(ClassDefinitions) = Len(ClassNodes)
        /\ \A i \in 1..Len(ClassNodes) :
               /\ i <= Len(ClassDefinitions)
               /\ ClassDefinitions[i].name = ClassNodes[i].name
               /\ ClassDefinitions[i].methods = MethodNamesOf(ClassNodes[i])
        /\ \A i \in 1..Len(parse_result.definitions) :
               parse_result.definitions[i].type # "class" =>
                   parse_result.definitions[i].line \notin MethodLines

\* the directory without the file p
DiskWithout(p) == [disk EXCEPT !.files[p] = NoFile]

\* the Python files with a syntax error that the pass collects, reads and
\* keeps
SyntaxErrorFiles ==
    {p \in DiskPaths :
        /\ FullPath(p) \in Range(collect_disk_files(disk, ret.extensions,
                                                    ret.exclude_patterns))
        /\ disk.files[p].readable
        /\ Len(disk.files[p].content.code) <= ret.max_file_size
        /\ ~IsBlank(disk.files[p].content.code)
        /\ suffix(p) = ExtPy
        /\ ExtPy \in DOMAIN parser.language_map
        /\ ~disk.files[p].content.ok}

SummaryReturned == ret.op = "get_repository_summary" /\ ret.status = "returned"

\* the positions of the lines of a kind in the summary
LinesOf(kind) == {k \in 1..Len(ret.value) : ret.value[k].kind = kind}

\* the heading above line k
FileOfLine(k) ==
    CHOOSE i \in LinesOf("file") : i <= k /\ \A j \in LinesOf("file") : j <= k => j <= i

DefinitionCount(p) ==
    Len(ix_repo_map[CHOOSE i \in 1..Len(ix_repo_map) : ix_repo_map[i].path = p].definitions)

ListedFiles == {ret.value[k].name : k \in LinesOf("file")}

\* C23: the summary has min(repo_summary_max_files, number of files)
\* headings, of different files of RepoMap, in descending order of their
\* number of definitions and none with fewer definitions than a file that
\* is left out; a class shows at most max_methods_shown of its methods and
\* a file at most max_functions_shown functions and methods; the call
\* leaves RepoMap and SymbolTable as they are.
C23_Summary ==
    /\ [](SummaryReturned =>
            /\ Cardinality(LinesOf("file")) =
                   (IF ret.repo_summary_max_files < Len(ix_repo_map)
                    THEN ret.repo_summary_max_files ELSE Len(ix_repo_map))
            /\ Cardinality(ListedFiles) = Cardinality(LinesOf("file"))
            /\ ListedFiles \subseteq {ix_repo_map[i].path : i \in 1..Len(ix_repo_map)}
            /\ \A i, j \in LinesOf("file") :
                   i < j => DefinitionCount(ret.value[i].name)
                                >= DefinitionCount(ret.value[j].name)
            /\ \A i \in 1..Len(ix_repo_map) :
                   ix_repo_map[i].path \notin ListedFiles =>
                       \A p \in ListedFiles :
                           DefinitionCount(p) >= Len(ix_repo_map[i].definitions)
            /\ \A k \in LinesOf("class") :
                   Len(ret.value[k].methods) <= ret.max_methods_shown
            /\ \A i \in LinesOf("file") :
                   Cardinality({k \in LinesOf("function") : FileOfLine(k) = i})
                       <= ret.max_functions_shown)
    /\ [][ret'.op = "get_repository_summary" =>
              ix_repo_map' = ix_repo_map /\ ix_symbol_to_file' = ix_symbol_to_file]_vars

\* a summary that leaves out the file with the fewest definitions, cuts the
\* methods of a class and cuts the functions of a file
C23_Witness ==
    /\ SummaryReturned
    /\ Len(ix_repo_map) = 2
    /\ Cardinality(LinesOf("file")) = 1
    /\ Len(ix_repo_map[1].definitions) < Len(ix_repo_map[2].definitions)
    /\ \E k \in LinesOf("class") : Len(ret.value[k].methods) = 1
    /\ Cardinality(LinesOf("function")) = 1
    /\ ret.max_functions_shown = 1

Edges(G) == {e \in Range(G.nodes) \X Range(G.nodes) : HasEdge(G, e[1], e[2])}

\* the same nodes and the same edges
SameGraph(G, H) == Range(G.nodes) = Range(H.nodes) /\ Edges(G) = Edges(H)

\* C24: after every build_graph, also one that follows a change of the
\* RepoMap or SymbolTable of the builder, the graph has the nodes and edges
\* of the graph built from scratch from the current RepoMap and SymbolTable.
C24_WholesaleRebuild ==
    ret.op = "build_graph" =>
        SameGraph(graph, build_graph(EmptyGraph, repo_map, symbol_to_file))

\* the position of a file in the sequence of the running trace
PositionOf(n) == CHOOSE k \in 1..Len(sequence) : sequence[k] = n

\* the files that outbound edges lead to from n
Descendants(n) == ReachWithin(graph, n, Cardinality(Range(graph.nodes)))

\* C25: every file of the returned sequence other than the first comes
\* after a file of the sequence that has an edge to it; and while the trace
\* runs, the calls of dfs that have not returned form a chain of edges from
\* the start file, in the order of the sequence, and every file that was
\* appended after one of them is reached from it by outbound edges (no
\* sibling of a file is visited before the exploration of that file is over).
C25_PreOrder ==
    /\ TraceReturned =>
           \A k \in 2..Len(ret.value) :
               \E j \in 1..(k - 1) : HasEdge(graph, ret.value[j], ret.value[k])
    /\ stack # <<>> =>
           /\ stack[1].node = ret.arg
           /\ \A k \in 1..Len(stack) :
                  /\ stack[k].node \in Range(sequence)
                  /\ stack[k].depth = k - 1
                  /\ \A m \in (PositionOf(stack[k].node) + 1)..Len(sequence) :
                         sequence[m] \in Descendants(stack[k].node)
           /\ \A k \in 1..(Len(stack) - 1) :
                  /\ HasEdge(graph, stack[k].node, stack[k + 1].node)
                  /\ PositionOf(stack[k].node) < PositionOf(stack[k + 1].node)
           /\ sequence[Len(sequence)] \in Descendants(Top.node)

\* a trace that came back from its first successor before it visited the
\* second one
C25_Witness ==
    /\ TraceReturned
    /\ Len(ret.value) = 3
    /\ ~HasEdge(graph, ret.value[2], ret.value[3])
    /\ HasEdge(graph, ret.value[1], ret.value[3])

\* C26: the sequence that trace_call_sequence(start, d) returns for a file
\* of the graph holds every file that at most d outbound edges lead to from
\* start.
C26_TraceComplete ==
    TraceReturned =>
        ReachWithin(graph, ret.arg, ret.max_depth) \subseteq Range(ret.value)

\* the nodes of the trees, at every depth
RECURSIVE NodesOf(_)
NodesOf(nodes) ==
    IF nodes = <<>> THEN {}
    ELSE {Head(nodes)} \cup NodesOf(Head(nodes).children) \cup NodesOf(Tail(nodes))

\* the declarations of the file the chunk can come from: a node of its kind
\* (class or not) on its lines
DeclarationsOf(c) ==
    {d \in NodesOf(tree.body) :
        /\ IsClassType(d.type) = IsClassType(c.type)
        /\ d.start_line = c.start_line
        /\ d.end_line = c.end_line}

\* C27: every chunk of the declaration path spans at most maxChunkLines
\* lines (end_line - start_line + 1 <= maxChunkLines) or is a declaration
\* that contains no sub-chunk-eligible nested declaration; also a top-level
\* chunk of exactly maxChunkLines + 1 lines, and also a sub-chunk.
C27_SizeCap ==
    DeclarationPath =>
        \A k \in 1..Len(chunks) :
            \/ chunks[k].end_line - chunks[k].start_line + 1 <= parser.max_chunk_lines
            \/ \E d \in DeclarationsOf(chunks[k]) : SubDeclarations(d) = <<>>

\* how often the path occurs in SymbolTable[n]
SymbolOccurrences(n, p) ==
    Cardinality({i \in 1..Len(Get(ix_symbol_to_file, n)) : ix_symbol_to_file[n][i] = p})

\* how many definitions of RepoMap[p] have the name; 0 when p is no key
DefinitionsNamed(n, p) ==
    IF EntriesOf(p) = {} THEN 0
    ELSE LET definitions == ix_repo_map[CHOOSE i \in EntriesOf(p) : TRUE].definitions
         IN  Cardinality({j \in 1..Len(definitions) : definitions[j].name = n})

\* C28: after index_codebase returns, whatever files failed and whatever the
\* extension list is (also one whose extensions match a file more than
\* once), for every name n and path p the number of occurrences of p in
\* SymbolTable[n] is the number of definitions named n in RepoMap[p], and
\* zero when p is no key of RepoMap.
C28_IndexConsistency ==
    IndexReturned =>
        \A n \in Names \ {<<>>}, p \in DiskPaths :
            SymbolOccurrences(n, p) = DefinitionsNamed(n, p)

\* chunk_code takes the size strategy, or falls back to it: the language is
\* unknown, the strategy is not function_or_class, no parser exists for the
\* language, ast.parse raises SyntaxError, or the file has no top-level
\* declaration
SizeFallback ==
    \/ get_language(parser, tree) = ""
    \/ parser.chunk_by # "function_or_class"
    \/ get_language(parser, tree) \notin DOMAIN parser.parsers
    \/ /\ get_language(parser, tree) = "python"
       /\ ~tree.ok
    \/ /\ OnPythonPath \/ OnTreeSitterPath
       /\ TopDeclarations = <<>>

\* the windows of max_lines lines of the text: window k (from 0) starts at
\* line k * max_lines + 1, every window but the last has max_lines lines,
\* the last one ends at the last line, and the name of a window is the
\* format filled with its start_line and end_line
AreSizeWindows(cs, text, max_lines) ==
    /\ Len(cs) = (LineCount(text) + max_lines - 1) \div max_lines
    /\ \A k \in 1..Len(cs) :
           /\ cs[k].type = "default_chunk_type"
           /\ cs[k].start_line = (k - 1) * max_lines + 1
           /\ cs[k].end_line - cs[k].start_line + 1 <= max_lines
           /\ cs[k].end_line >= cs[k].start_line
           /\ k < Len(cs) => cs[k].end_line - cs[k].start_line + 1 = max_lines
           /\ k = Len(cs) => cs[k].end_line = LineCount(text)
           /\ cs[k].name = <<cs[k].start_line, cs[k].end_line>>
           /\ cs[k].text = get_node_text_from_lines(text, cs[k].start_line, cs[k].end_line)

\* C29: under the size strategy or any fallback to it every chunk has at
\* most maxChunkLines lines, every chunk but the last exactly maxChunkLines,
\* chunk k starts at line k * maxChunkLines + 1 and is named by the format
\* filled with its start_line and end_line; chunk_code returns exactly these
\* windows when the language is unknown, the strategy is not
\* function_or_class, no parser exists for the language or no top-level
\* declaration is found.
C29_SizeWindows ==
    (phase = "chunked" /\ SizeFallback) =>
        AreSizeWindows(chunks, code, parser.max_chunk_lines)

\* a java file without a top-level declaration of the configured types, cut
\* into two windows, the last one shorter
C29_Witness ==
    /\ phase = "chunked"
    /\ OnTreeSitterPath
    /\ tree.body # <<>>
    /\ TopDeclarations = <<>>
    /\ Len(chunks) = 2
    /\ chunks[2].end_line - chunks[2].start_line + 1 < parser.max_chunk_lines

\* the exceptions and responses after which query tries again
Retryable == {"no_content", "APIConnectionError", "APITimeoutError", "Exception"}

\* the requests of the call that were followed by another attempt
Retried == IF ret.status = "running" THEN Len(responses) ELSE Len(responses) - 1

\* C30: every call of query ends after at most max_retries attempts, by
\* returning the text of a successful response or by raising; connection
\* errors, timeouts and unexpected exceptions are retried after a wait of
\* retry_backoff_base ** attempt seconds and raise only on the last
\* attempt; an APIError raises on its first occurrence without any retry.
C30_RetryProtocol ==
    ret.op = "query" =>
        /\ Len(responses) <= client.max_retries
        /\ ret.status = "returned" =>
               /\ responses # <<>>
               /\ responses[Len(responses)] = "text"
               /\ ret.value = "text"
        /\ ret.status = "raised" =>
               /\ responses # <<>>
               /\ responses[Len(responses)] # "text"
               /\ responses[Len(responses)] \in Retryable =>
                      Len(responses) = client.max_retries
        /\ \A k \in 1..Retried : responses[k] \in Retryable
        /\ Len(waits) = Retried
        /\ \A k \in 1..Len(waits) : waits[k] = Pow(client.retry_backoff_base, k - 1)

============================================================================
